---- MODULE Spec2Model ----
(***************************************************************************)
(* Authorization of a run of the action: checkWritePermissions and the     *)
(* functions it is built from (verifyTokenAccess, the label write probe,   *)
(* canSkipActorCheck, validateTrustedBot, checkActorWritePermissions) and  *)
(* the API call wrapper executeApiCall.                                    *)
(*                                                                         *)
(* A handle is a sequence of one-character strings, a message is a         *)
(* sequence of strings (the pieces of the template literal), a platform    *)
(* call's outcome is a record [ok, status, message, data].  Status 0 is an *)
(* error that carries no status property.                                  *)
(***************************************************************************)
EXTENDS Naturals, Sequences, FiniteSets, TLC

(* ---------------------------------------------------------------------- *)
(* Bounds of the model                                                     *)
(* ---------------------------------------------------------------------- *)

\* Largest number of entries of inputs.trustedBots
MaxTrusted == 2

(* ---------------------------------------------------------------------- *)
(* Constants of ../context (imported by actor.ts)                          *)
(* ---------------------------------------------------------------------- *)

BOT_SUFFIX == <<"[", "b", "o", "t", "]">>

SENDER_TYPE_BOT == "Bot"

WRITE_PERMISSION_LEVELS == {"admin", "write"}

TokenSource == [OIDC |-> "oidc", EXTERNAL |-> "external"]

(* ---------------------------------------------------------------------- *)
(* Input domains                                                            *)
(* ---------------------------------------------------------------------- *)

DependabotBot == <<"d">> \o BOT_SUFFIX
DependabotBare == <<"d">>
HumanUser == <<"u">>

Handles == {DependabotBot, DependabotBare, HumanUser}

\* a handle spelled with an upper-case letter
DependabotUpper == <<"D">> \o BOT_SUFFIX

\* payload.pull_request?.user?.login when the payload has no pull request
NoAuthor == <<>>

EventNames == {"pull_request", "pull_request_target", "issue_comment", "pull_request_review"}

\* payload?.sender?.type; "undefined" when the payload has no sender
SenderTypes == {"Bot", "User", "Organization", "undefined"}

\* error statuses the platform answers with; 0: an error without a status
ErrorStatuses == {403, 404, 429, 500, 0}

\* data.permissions of repos.get: absent, or the push and admin flags
RepoPermissions == {"absent", "neither", "push", "admin", "push+admin"}

\* data.permission of getCollaboratorPermissionLevel; "maintain" stands for a
\* string other than the four the platform documents
CollaboratorPermissions == {"admin", "write", "read", "none", "maintain"}

Variants == {"retry", "noretry"}

TrustLists == {t \in SUBSET Handles : Cardinality(t) <= MaxTrusted}

(* ---------------------------------------------------------------------- *)
(* Strings                                                                  *)
(* ---------------------------------------------------------------------- *)

\* String.prototype.endsWith
endsWith(s, suffix) ==
  /\ Len(s) >= Len(suffix)
  /\ SubSeq(s, Len(s) - Len(suffix) + 1, Len(s)) = suffix

\* a handle as it is interpolated into a message
show(h) ==
  CASE h = DependabotBot -> "d[bot]"
    [] h = DependabotBare -> "d"
    [] h = HumanUser -> "u"
    [] h = DependabotUpper -> "D[bot]"
    [] OTHER -> ""

\* a status as it is interpolated into a message
showStatus(s) ==
  CASE s = 403 -> "403"
    [] s = 404 -> "404"
    [] s = 429 -> "429"
    [] s = 500 -> "500"
    [] OTHER -> "undefined"

\* the message property of the error the platform answers with
messageOf(s) ==
  CASE s = 403 -> "Forbidden"
    [] s = 404 -> "Not Found"
    [] s = 429 -> "API rate limit exceeded"
    [] s = 500 -> "Server Error"
    [] OTHER -> "API error"

Log(level, text) == [level |-> level, text |-> text]

(* ---------------------------------------------------------------------- *)
(* Outcomes of a platform call                                              *)
(* ---------------------------------------------------------------------- *)

Success(data) == [ok |-> TRUE, status |-> 0, message |-> "", data |-> data]

Failure(s) == [ok |-> FALSE, status |-> s, message |-> messageOf(s), data |-> ""]

Failures == {Failure(s) : s \in ErrorStatuses}

RepoOutcomes == {Success(p) : p \in RepoPermissions} \cup Failures

CollaboratorOutcomes == {Success(p) : p \in CollaboratorPermissions} \cup Failures

\* createLabel: the label name is unique to the run, so creation can succeed
CreateOutcomes == {Success("created")} \cup Failures

\* deleteLabel succeeds only on a label that exists
DeleteOutcomes(exists) == IF exists THEN {Success("deleted")} \cup Failures ELSE Failures

\* new Error("Label operation timed out"): no status
TimeoutError == [ok |-> FALSE, status |-> 0, message |-> "Label operation timed out", data |-> ""]

(* ---------------------------------------------------------------------- *)
(* executeApiCall                                                           *)
(* ---------------------------------------------------------------------- *)

NoHandler == [present |-> FALSE, warn |-> <<>>]

Handler(text) == [present |-> TRUE, warn |-> text]

NoHandlers == [onAccessDenied |-> NoHandler, onNotFound |-> NoHandler]

Returned(data, logs) == [kind |-> "value", data |-> data, msg |-> <<>>, logs |-> logs]

ReturnedFalse(logs) == [kind |-> "false", data |-> "", msg |-> <<>>, logs |-> logs]

Raised(msg, logs) == [kind |-> "raise", data |-> "", msg |-> msg, logs |-> logs]

\* a mutation: a rate-limited call is answered like an access-denied one
executeApiCallRateLimitAsDenied(outcome, operationName, handlers) ==
  IF outcome.ok
  THEN Returned(outcome.data, <<>>)
  ELSE IF outcome.status \in {403, 404, 429}
       THEN LET handler == IF outcome.status = 403 THEN handlers.onAccessDenied
                           ELSE handlers.onNotFound
            IN IF handler.present
               THEN ReturnedFalse(<<Log("warning", handler.warn)>>)
               ELSE ReturnedFalse(<<Log("warning",
                      <<operationName, " failed (", showStatus(outcome.status), "): ",
                        outcome.message>>)>>)
       ELSE LET msg == <<"Failed to ", operationName, ": ", outcome.message>>
            IN Raised(msg, <<Log("error", msg)>>)

\* a mutation: the two handlers are swapped
executeApiCallSwappedHandlers(outcome, operationName, handlers) ==
  IF outcome.ok
  THEN Returned(outcome.data, <<>>)
  ELSE IF outcome.status = 403 \/ outcome.status = 404
       THEN LET handler == IF outcome.status = 403 THEN handlers.onNotFound
                           ELSE handlers.onAccessDenied
            IN IF handler.present
               THEN ReturnedFalse(<<Log("warning", handler.warn)>>)
               ELSE ReturnedFalse(<<Log("warning",
                      <<operationName, " failed (", showStatus(outcome.status), "): ",
                        outcome.message>>)>>)
       ELSE IF outcome.status = 429
            THEN LET msg == <<"Rate limited: ", outcome.message>>
                 IN Raised(msg, <<Log("error", msg)>>)
            ELSE LET msg == <<"Failed to ", operationName, ": ", outcome.message>>
                 IN Raised(msg, <<Log("error", msg)>>)

\* a mutation: only an access-denied error is handled, a not-found one is fatal
executeApiCallNotFoundFatal(outcome, operationName, handlers) ==
  IF outcome.ok
  THEN Returned(outcome.data, <<>>)
  ELSE IF outcome.status = 403
       THEN IF handlers.onAccessDenied.present
            THEN ReturnedFalse(<<Log("warning", handlers.onAccessDenied.warn)>>)
            ELSE ReturnedFalse(<<Log("warning",
                   <<operationName, " failed (", showStatus(outcome.status), "): ",
                     outcome.message>>)>>)
       ELSE IF outcome.status = 429
            THEN LET msg == <<"Rate limited: ", outcome.message>>
                 IN Raised(msg, <<Log("error", msg)>>)
            ELSE LET msg == <<"Failed to ", operationName, ": ", outcome.message>>
                 IN Raised(msg, <<Log("error", msg)>>)

\* The handlers of this repository log a warning and return false.
executeApiCall(outcome, operationName, handlers) ==
  IF outcome.ok
  THEN Returned(outcome.data, <<>>)
  ELSE IF outcome.status = 403 \/ outcome.status = 404
       THEN LET handler == IF outcome.status = 403 THEN handlers.onAccessDenied
                           ELSE handlers.onNotFound
            IN IF handler.present
               THEN ReturnedFalse(<<Log("warning", handler.warn)>>)
               ELSE ReturnedFalse(<<Log("warning",
                      <<operationName, " failed (", showStatus(outcome.status), "): ",
                        outcome.message>>)>>)
       ELSE IF outcome.status = 429
            THEN LET msg == <<"Rate limited: ", outcome.message>>
                 IN Raised(msg, <<Log("error", msg)>>)
            ELSE LET msg == <<"Failed to ", operationName, ": ", outcome.message>>
                 IN Raised(msg, <<Log("error", msg)>>)

(* ---------------------------------------------------------------------- *)
(* validateTrustedBot                                                       *)
(* ---------------------------------------------------------------------- *)

Context(sender, author) == [senderType |-> sender, prAuthor |-> author]

Valid == [isValid |-> TRUE, reason |-> <<>>]

Invalid(reason) == [isValid |-> FALSE, reason |-> reason]

SpoofReason(actor, hasBotSuffix, sender) ==
  IF hasBotSuffix
  THEN <<"Account ", show(actor), " claims to be a bot but sender type is '", sender,
         "' (expected '", SENDER_TYPE_BOT, "') - requiring permission check">>
  ELSE <<"Non-standard bot name '", show(actor), "' with sender type '", SENDER_TYPE_BOT,
         "' - requiring permission check for safety">>

TargetReason(actor) ==
  <<"Trusted bot ", show(actor),
    " on pull_request_target event - actor check required for security">>

EventReason(actor, eventName) ==
  <<"Trusted bot ", show(actor), " on ", eventName,
    " event - only pull_request events can skip actor checks">>

AuthorReason(actor, author) ==
  <<"Bot ", show(actor), " is trusted but didn't create the PR (created by ", show(author),
    ") - requiring permission check">>

\* a mutation: the pull_request_target check is missing and the event-type
\* restriction accepts every pull_request* event
validateTrustedBotNoTargetCheck(actor, eventName, context) ==
  LET hasBotSuffix == endsWith(actor, BOT_SUFFIX)
      isBotSender == context.senderType = SENDER_TYPE_BOT
  IN IF hasBotSuffix # isBotSender
     THEN Invalid(SpoofReason(actor, hasBotSuffix, context.senderType))
     ELSE IF eventName \notin {"pull_request", "pull_request_target"}
     THEN Invalid(EventReason(actor, eventName))
     ELSE IF context.prAuthor # NoAuthor /\ context.prAuthor # actor
     THEN Invalid(AuthorReason(actor, context.prAuthor))
     ELSE Valid

\* a mutation: only a bot-suffixed handle is checked against the sender type
validateTrustedBotOneDirection(actor, eventName, context) ==
  LET hasBotSuffix == endsWith(actor, BOT_SUFFIX)
      isBotSender == context.senderType = SENDER_TYPE_BOT
  IN IF hasBotSuffix /\ ~isBotSender
     THEN Invalid(SpoofReason(actor, hasBotSuffix, context.senderType))
     ELSE IF eventName = "pull_request_target"
     THEN Invalid(TargetReason(actor))
     ELSE IF eventName # "pull_request"
     THEN Invalid(EventReason(actor, eventName))
     ELSE IF context.prAuthor # NoAuthor /\ context.prAuthor # actor
     THEN Invalid(AuthorReason(actor, context.prAuthor))
     ELSE Valid

\* a mutation: the event-type restriction is missing
validateTrustedBotAnyEvent(actor, eventName, context) ==
  LET hasBotSuffix == endsWith(actor, BOT_SUFFIX)
      isBotSender == context.senderType = SENDER_TYPE_BOT
  IN IF hasBotSuffix # isBotSender
     THEN Invalid(SpoofReason(actor, hasBotSuffix, context.senderType))
     ELSE IF eventName = "pull_request_target"
     THEN Invalid(TargetReason(actor))
     ELSE IF context.prAuthor # NoAuthor /\ context.prAuthor # actor
     THEN Invalid(AuthorReason(actor, context.prAuthor))
     ELSE Valid

\* a mutation: a payload without a pull-request author fails the authorship step
validateTrustedBotAuthorRequired(actor, eventName, context) ==
  LET hasBotSuffix == endsWith(actor, BOT_SUFFIX)
      isBotSender == context.senderType = SENDER_TYPE_BOT
  IN IF hasBotSuffix # isBotSender
     THEN Invalid(SpoofReason(actor, hasBotSuffix, context.senderType))
     ELSE IF eventName = "pull_request_target"
     THEN Invalid(TargetReason(actor))
     ELSE IF eventName # "pull_request"
     THEN Invalid(EventReason(actor, eventName))
     ELSE IF context.prAuthor # actor
     THEN Invalid(AuthorReason(actor, context.prAuthor))
     ELSE Valid

\* a mutation: the spoofing check asks for a bot suffix and a Bot sender
validateTrustedBotBotsOnly(actor, eventName, context) ==
  LET hasBotSuffix == endsWith(actor, BOT_SUFFIX)
      isBotSender == context.senderType = SENDER_TYPE_BOT
  IN IF ~(hasBotSuffix /\ isBotSender)
     THEN Invalid(SpoofReason(actor, hasBotSuffix, context.senderType))
     ELSE IF eventName = "pull_request_target"
     THEN Invalid(TargetReason(actor))
     ELSE IF eventName # "pull_request"
     THEN Invalid(EventReason(actor, eventName))
     ELSE IF context.prAuthor # NoAuthor /\ context.prAuthor # actor
     THEN Invalid(AuthorReason(actor, context.prAuthor))
     ELSE Valid

\* a mutation: the pull_request_target check comes before the spoofing check
validateTrustedBotTargetFirst(actor, eventName, context) ==
  LET hasBotSuffix == endsWith(actor, BOT_SUFFIX)
      isBotSender == context.senderType = SENDER_TYPE_BOT
  IN IF eventName = "pull_request_target"
     THEN Invalid(TargetReason(actor))
     ELSE IF hasBotSuffix # isBotSender
     THEN Invalid(SpoofReason(actor, hasBotSuffix, context.senderType))
     ELSE IF eventName # "pull_request"
     THEN Invalid(EventReason(actor, eventName))
     ELSE IF context.prAuthor # NoAuthor /\ context.prAuthor # actor
     THEN Invalid(AuthorReason(actor, context.prAuthor))
     ELSE Valid

validateTrustedBot(actor, eventName, context) ==
  LET hasBotSuffix == endsWith(actor, BOT_SUFFIX)
      isBotSender == context.senderType = SENDER_TYPE_BOT
  IN IF hasBotSuffix # isBotSender
     THEN Invalid(SpoofReason(actor, hasBotSuffix, context.senderType))
     ELSE IF eventName = "pull_request_target"
     THEN Invalid(TargetReason(actor))
     ELSE IF eventName # "pull_request"
     THEN Invalid(EventReason(actor, eventName))
     ELSE IF context.prAuthor # NoAuthor /\ context.prAuthor # actor
     THEN Invalid(AuthorReason(actor, context.prAuthor))
     ELSE Valid

(* ---------------------------------------------------------------------- *)
(* canSkipActorCheck                                                        *)
(* ---------------------------------------------------------------------- *)

\* JSON.stringify(allowedBots), as far as the model tells lists apart
showList(allowedBots) == IF allowedBots = {} THEN "[]" ELSE "[...]"

SkipHeader(tokenSource, actor, eventName, allowedBots) ==
  << Log("info", <<"=== Actor Check Skip Decision ===">>),
     Log("info", <<"Token source: ", tokenSource>>),
     Log("info", <<"Actor: ", show(actor)>>),
     Log("info", <<"Event: ", eventName>>),
     Log("info", <<"Allowed bots: ", showList(allowedBots)>>) >>

Decision(skip, validated, logs) == [skip |-> skip, validated |-> validated, logs |-> logs]

\* a mutation: the provenance of the token is not looked at
canSkipActorCheckAnySource(tokenSource, actor, eventName, allowedBots, context) ==
  LET header == SkipHeader(tokenSource, actor, eventName, allowedBots)
  IN IF actor \notin allowedBots
     THEN Decision(FALSE, FALSE, header \o <<Log("warning",
            <<"External token provided but actor ", show(actor),
              " is not an allowed bot - checking actor permissions">>)>>)
     ELSE LET validationResult == validateTrustedBot(actor, eventName, context)
              listed == header \o
                <<Log("info", <<"Actor ", show(actor), " is in allowed bots list">>)>>
          IN IF ~validationResult.isValid
             THEN Decision(FALSE, TRUE, listed \o <<Log("warning", validationResult.reason)>>)
             ELSE Decision(TRUE, TRUE, listed \o <<Log("info",
                    <<"Allowed bot bypass used: actor=", show(actor), ", event=", eventName>>)>>)

\* a mutation: the trust list is not looked at
canSkipActorCheckAnyActor(tokenSource, actor, eventName, allowedBots, context) ==
  LET header == SkipHeader(tokenSource, actor, eventName, allowedBots)
  IN IF tokenSource = TokenSource.OIDC
     THEN Decision(FALSE, FALSE,
            header \o <<Log("info", <<"OIDC token detected - actor check required">>)>>)
     ELSE LET validationResult == validateTrustedBot(actor, eventName, context)
              listed == header \o
                <<Log("info", <<"Actor ", show(actor), " is in allowed bots list">>)>>
          IN IF ~validationResult.isValid
             THEN Decision(FALSE, TRUE, listed \o <<Log("warning", validationResult.reason)>>)
             ELSE Decision(TRUE, TRUE, listed \o <<Log("info",
                    <<"Allowed bot bypass used: actor=", show(actor), ", event=", eventName>>)>>)

canSkipActorCheck(tokenSource, actor, eventName, allowedBots, context) ==
  LET header == SkipHeader(tokenSource, actor, eventName, allowedBots)
  IN IF tokenSource = TokenSource.OIDC
     THEN Decision(FALSE, FALSE,
            header \o <<Log("info", <<"OIDC token detected - actor check required">>)>>)
     ELSE IF actor \notin allowedBots
     THEN Decision(FALSE, FALSE, header \o <<Log("warning",
            <<"External token provided but actor ", show(actor),
              " is not an allowed bot - checking actor permissions">>)>>)
     ELSE LET validationResult == validateTrustedBot(actor, eventName, context)
              listed == header \o
                <<Log("info", <<"Actor ", show(actor), " is in allowed bots list">>)>>
          IN IF ~validationResult.isValid
             THEN Decision(FALSE, TRUE, listed \o <<Log("warning", validationResult.reason)>>)
             ELSE Decision(TRUE, TRUE, listed \o <<Log("info",
                    <<"Allowed bot bypass used: actor=", show(actor), ", event=", eventName>>)>>)

(* ---------------------------------------------------------------------- *)
(* Permission strings and flags                                             *)
(* ---------------------------------------------------------------------- *)

\* a mutation: a response without a permissions object counts as write access
tokenHasWriteAccessAbsentPasses(permissions) ==
  permissions \in {"push", "admin", "push+admin", "absent"}

\* a mutation: only the push flag is looked at
tokenHasWriteAccessPushOnly(permissions) ==
  permissions \in {"push", "push+admin"}

\* const { push, admin } = result.data.permissions || {};
\* push === true || admin === true
tokenHasWriteAccess(permissions) ==
  LET push == permissions \in {"push", "push+admin"}
      admin == permissions \in {"admin", "push+admin"}
  IN push \/ admin

\* a mutation: read access suffices
actorHasWriteAccessReadPasses(permission) ==
  permission \in WRITE_PERMISSION_LEVELS \cup {"read"}

\* WRITE_PERMISSION_LEVELS.includes(permission)
actorHasWriteAccess(permission) == permission \in WRITE_PERMISSION_LEVELS

(* ---------------------------------------------------------------------- *)
(* State                                                                    *)
(* ---------------------------------------------------------------------- *)

VARIABLES
  source,        \* tokenContext.source
  actor,         \* context.actor
  eventName,     \* context.eventName
  trustedBots,   \* context.inputs.trustedBots || []
  senderType,    \* context.payload?.sender?.type
  prAuthor,      \* context.payload.pull_request?.user?.login
  variant,       \* which verifyExternalTokenWriteCapability the build holds
  pc,            \* where the awaiting chain of checkWritePermissions stands
  calls,         \* the platform requests issued, in order
  repoData,      \* data.permissions of the answer of repos.get, once it answered
  rateLimited,   \* whether some platform call of the run was answered with 429
  wrapped,       \* the invocations of executeApiCall: arguments and result
  logs,          \* the core.info / core.warning / core.error lines, in order
  tokenResult,   \* what verifyTokenAccess gave: none, true, false, raise
  skipResult,    \* what canSkipActorCheck gave: none, true, false
  validation,    \* what validateTrustedBot gave, when it was called
  actorResult,   \* what checkActorWritePermissions gave: none, true, false, raise
  verdict,       \* what checkWritePermissions gave: none, true, false, raise
  errMsg,        \* the message of the error it raised
  op,            \* where labelOperation() stands
  attempt,       \* the attempt retryWithBackoff is at
  labelCreated,  \* the flag of the probe's closure
  labelExists,   \* whether the probe label is on the repository
  timer,         \* the timeout of the probe: unset, armed, fired
  createEnd,     \* how the probe's createLabel step ended, once it has
  deleteEnd,     \* how the probe's deleteLabel step ended, once it has
  idVariant,     \* which actor identity check the build holds
  allowedBots,   \* githubContext.inputs.allowedBots, a string
  idPc,          \* where the actor identity check stands
  kind,          \* userData.type, once users.getByUsername answered
  idResult,      \* what the actor identity check gave: none, ok, raise
  idError,       \* the error users.getByUsername rejected with
  runVariant,    \* which run() the build holds
  runPc,         \* where run() stands
  entity,        \* what isEntityContext(context) gave, once the context is parsed
  runCalls,      \* the collaborators run() has called, in order
  outputs,       \* the core.setOutput / core.exportVariable calls, in order
  failed,        \* the message run() gave to core.setFailed
  repository,    \* what the platform answers from, when the repository's state is held fixed
  first,         \* what an earlier call of checkWritePermissions in this process gave
  pendingError   \* the error the probe's catch block holds while it cleans up

inputs == <<source, actor, eventName, trustedBots, senderType, prAuthor, variant>>

flow == <<pc, logs, wrapped, tokenResult, skipResult, validation, verdict, errMsg, pendingError>>

labelOp == <<op, attempt, labelCreated>>

answers == <<repoData, rateLimited>>

steps == <<createEnd, deleteEnd>>

identity == <<idVariant, allowedBots, idPc, kind, idResult, idError>>

\* the state of what runs outside checkWritePermissions
running == <<runVariant, runPc, entity, runCalls, outputs, failed>>

\* the state of the repository and of an earlier call, held across calls
twice == <<repository, first>>

outer == <<identity, running, twice>>

vars == <<inputs, flow, calls, answers, actorResult, labelOp, labelExists, timer, steps, outer>>

\* maxAttempts of the createLabel retry
CreateMaxAttempts == 3

\* maxAttempts of the deleteLabel retry
DeleteMaxAttempts == 2

NotValidated == [isValid |-> FALSE, reason |-> <<"validateTrustedBot was not called">>]

NoError == [ok |-> TRUE, status |-> 0, message |-> "", data |-> ""]

\* the actor identity check is not called
IdentityIdle ==
  /\ idVariant = "allowedBots"
  /\ allowedBots = <<>>
  /\ idPc = "start"
  /\ kind = "unresolved"
  /\ idResult = "none"
  /\ idError = NoError

\* run() is not called
RunIdle ==
  /\ runVariant = "tokenContext"
  /\ runPc = "idle"
  /\ entity = "unparsed"
  /\ runCalls = <<>>
  /\ outputs = <<>>
  /\ failed = <<>>

\* the platform answers as it likes
AnyRepository ==
  [fixed |-> FALSE, repo |-> NoError, create |-> NoError, delete |-> NoError,
   collaborator |-> NoError]

\* no earlier call was made
NoCall ==
  [result |-> "none", verdict |-> "none", calls |-> <<>>, timer |-> "unset",
   labelLeft |-> FALSE, repository |-> AnyRepository]

\* checkWritePermissions is called once, on a repository that may change
\* between any two requests
TwiceIdle ==
  /\ repository = AnyRepository
  /\ first = NoCall

\* what repos.get may answer
RepoAnswers == IF repository.fixed THEN {repository.repo} ELSE RepoOutcomes

\* what getCollaboratorPermissionLevel may answer
CollaboratorAnswers ==
  IF repository.fixed THEN {repository.collaborator} ELSE CollaboratorOutcomes

\* a mutation: testLabel is the same name in every call, and createLabel on a
\* label an earlier call left behind is rejected (422)
CreateAnswersFixedName ==
  IF first.labelLeft THEN {Failure(422)}
  ELSE IF repository.fixed THEN {repository.create} ELSE CreateOutcomes

\* what createLabel may answer: testLabel is a fresh name in each call, so a
\* label an earlier call left behind is another label
CreateAnswers == IF repository.fixed THEN {repository.create} ELSE CreateOutcomes

\* what deleteLabel may answer: a label that is gone cannot be deleted
DeleteAnswers(exists) ==
  IF repository.fixed
  THEN {IF repository.delete.ok /\ ~exists THEN Failure(404) ELSE repository.delete}
  ELSE DeleteOutcomes(exists)

TokenReadHandlers ==
  [onAccessDenied |-> Handler(<<"Token lacks read access">>),
   onNotFound |-> Handler(<<"Token lacks read access">>)]

ProbeHandlers ==
  [onAccessDenied |-> Handler(<<"External token lacks write permissions">>),
   onNotFound |-> Handler(<<"External token cannot access repository">>)]

Wrapped(outcome, operationName, handlers, result) ==
  [outcome |-> outcome, operationName |-> operationName, handlers |-> handlers,
   result |-> result]

\* the platform answers a request with outcome
Answered(outcome) == rateLimited' = (rateLimited \/ outcome.status = 429)

\* how a step ended with outcome: "ok", or the status of the error
Ending(outcome) == IF outcome.ok THEN "ok" ELSE showStatus(outcome.status)

Init ==
  /\ source \in {TokenSource.OIDC, TokenSource.EXTERNAL}
  /\ actor \in Handles
  /\ eventName \in EventNames
  /\ trustedBots \in TrustLists
  /\ senderType \in SenderTypes
  /\ prAuthor \in Handles \cup {NoAuthor}
  /\ variant \in IF source = TokenSource.EXTERNAL THEN Variants ELSE {"retry"}
  /\ pc = "start"
  /\ calls = <<>>
  /\ repoData = "unread"
  /\ rateLimited = FALSE
  /\ wrapped = <<>>
  /\ logs = <<>>
  /\ tokenResult = "none"
  /\ skipResult = "none"
  /\ validation = NotValidated
  /\ actorResult = "none"
  /\ verdict = "none"
  /\ errMsg = <<>>
  /\ op = "idle"
  /\ attempt = 0
  /\ labelCreated = FALSE
  /\ labelExists = FALSE
  /\ timer = "unset"
  /\ createEnd = "none"
  /\ deleteEnd = "none"
  /\ pendingError = NoError
  /\ IdentityIdle
  /\ RunIdle
  /\ TwiceIdle

(* ---------------------------------------------------------------------- *)
(* checkWritePermissions, from the token check's result on                  *)
(* ---------------------------------------------------------------------- *)

\* a mutation: the result of the token check is not looked at
AfterTokenUngated(tokenOk, lg, cs, wr) ==
  LET d == canSkipActorCheck(source, actor, eventName, trustedBots,
                             Context(senderType, prAuthor))
  IN /\ tokenResult' = IF tokenOk THEN "true" ELSE "false"
     /\ wrapped' = wr
     /\ UNCHANGED <<errMsg, pendingError>>
     /\ skipResult' = IF d.skip THEN "true" ELSE "false"
     /\ validation' = IF d.validated
                      THEN validateTrustedBot(actor, eventName,
                                              Context(senderType, prAuthor))
                      ELSE validation
     /\ IF d.skip
        THEN /\ logs' = lg \o d.logs \o
                  <<Log("info", <<"Actor check skipped - using token permissions">>)>>
             /\ verdict' = "true"
             /\ pc' = "done"
             /\ calls' = cs
        ELSE /\ logs' = lg \o d.logs
             /\ calls' = Append(cs, "getCollaboratorPermissionLevel")
             /\ pc' = "actorRead"
             /\ UNCHANGED verdict

\* Steps 1 to 3 of checkWritePermissions once verifyTokenAccess has returned
\* tokenOk: the early return, canSkipActorCheck, and the request of
\* checkActorWritePermissions.  lg, cs, wr: the lines logged, the requests
\* issued and the wrapper invocations made so far.
AfterToken(tokenOk, lg, cs, wr) ==
  /\ tokenResult' = IF tokenOk THEN "true" ELSE "false"
  /\ wrapped' = wr
  /\ UNCHANGED <<errMsg, pendingError>>
  /\ IF ~tokenOk
     THEN /\ logs' = lg \o
               <<Log("error", <<"Token verification failed - no write access">>)>>
          /\ verdict' = "false"
          /\ pc' = "done"
          /\ calls' = cs
          /\ UNCHANGED <<skipResult, validation>>
     ELSE LET d == canSkipActorCheck(source, actor, eventName, trustedBots,
                                     Context(senderType, prAuthor))
          IN /\ skipResult' = IF d.skip THEN "true" ELSE "false"
             /\ validation' = IF d.validated
                              THEN validateTrustedBot(actor, eventName,
                                                      Context(senderType, prAuthor))
                              ELSE validation
             /\ IF d.skip
                THEN /\ logs' = lg \o d.logs \o
                          <<Log("info", <<"Actor check skipped - using token permissions">>)>>
                     /\ verdict' = "true"
                     /\ pc' = "done"
                     /\ calls' = cs
                ELSE /\ logs' = lg \o d.logs
                     /\ calls' = Append(cs, "getCollaboratorPermissionLevel")
                     /\ pc' = "actorRead"
                     /\ UNCHANGED verdict

\* verifyTokenAccess raises: checkWritePermissions raises with it
TokenRaise(msg, lg, cs, wr) ==
  /\ tokenResult' = "raise"
  /\ verdict' = "raise"
  /\ errMsg' = msg
  /\ pc' = "done"
  /\ logs' = lg
  /\ calls' = cs
  /\ wrapped' = wr
  /\ UNCHANGED <<skipResult, validation, pendingError>>

ProbeName == "verify token write capability"

\* the probe's operation threw e: executeApiCall classifies it, then
\* verifyExternalTokenWriteCapability and verifyTokenAccess return or raise
ProbeThrow(e, lg, cs) ==
  LET r == executeApiCall(e, ProbeName, ProbeHandlers)
      wr == Append(wrapped, Wrapped(e, ProbeName, ProbeHandlers, r))
  IN IF r.kind = "raise"
     THEN TokenRaise(r.msg, lg \o r.logs, cs, wr)
     ELSE AfterToken(FALSE,
            lg \o r.logs \o <<Log("error", <<"External token lacks write permissions">>)>>,
            cs, wr)

\* the probe's operation returned true
ProbeReturn(lg, cs) ==
  LET r == executeApiCall(Success("true"), ProbeName, ProbeHandlers)
      wr == Append(wrapped, Wrapped(Success("true"), ProbeName, ProbeHandlers, r))
  IN AfterToken(TRUE,
       lg \o r.logs \o <<Log("info", <<"External token verified with write capability">>)>>,
       cs, wr)

\* a mutation: the catch block throws the error again without cleaning up
CatchWithoutCleanup(e, created, lg, cs) == ProbeThrow(e, lg, cs)

\* the catch block of the probe's operation, entered with error e
Catch(e, created, lg, cs) ==
  IF created
  THEN /\ pc' = "cleanup"
       /\ pendingError' = e
       /\ calls' = Append(cs, "deleteLabel")
       /\ logs' = lg
       /\ UNCHANGED <<wrapped, tokenResult, skipResult, validation, verdict, errMsg>>
  ELSE ProbeThrow(e, lg, cs)

\* the awaiting chain of checkWritePermissions is not resumed
Idle(cs) == calls' = cs /\ UNCHANGED flow

(* ---------------------------------------------------------------------- *)
(* Actions                                                                  *)
(* ---------------------------------------------------------------------- *)

\* checkWritePermissions up to the first platform request of verifyTokenAccess
Start ==
  /\ pc = "start"
  /\ LET lg == <<Log("info", <<"Checking permissions for actor: ", show(actor)>>)>> \o
               (IF trustedBots # {}
                THEN <<Log("info", <<"Trusted bots configured: ", showList(trustedBots)>>)>>
                ELSE <<>>)
     IN IF source = TokenSource.OIDC
        THEN /\ logs' = lg \o <<Log("info", <<"Checking OIDC token permissions">>)>>
             /\ calls' = Append(calls, "repos.get")
             /\ pc' = "repoGet"
             /\ UNCHANGED <<labelOp, timer>>
        ELSE /\ logs' = lg \o <<Log("info", <<"Verifying external token write capability">>)>>
             /\ calls' = Append(calls, "createLabel")
             /\ IF variant = "retry"
                THEN /\ pc' = "race"
                     /\ timer' = "armed"
                     /\ op' = "createPending"
                     /\ attempt' = 1
                     /\ labelCreated' = FALSE
                ELSE /\ pc' = "createSimple"
                     /\ UNCHANGED <<labelOp, timer>>
  /\ UNCHANGED <<outer, inputs, answers, wrapped, tokenResult, skipResult, validation,
                 verdict, errMsg, pendingError, actorResult, labelExists, steps>>

\* checkTokenWritePermissions: repos.get answers
RepoGetResponse ==
  /\ pc = "repoGet"
  /\ \E outcome \in RepoAnswers :
       LET name == "check token permissions"
           r == executeApiCall(outcome, name, TokenReadHandlers)
           wr == Append(wrapped, Wrapped(outcome, name, TokenReadHandlers, r))
       IN /\ Answered(outcome)
          /\ repoData' = IF outcome.ok THEN outcome.data ELSE "error"
          /\ IF r.kind = "raise"
             THEN TokenRaise(r.msg, logs \o r.logs, calls, wr)
             ELSE IF r.kind = "false"
             THEN AfterToken(FALSE, logs \o r.logs, calls, wr)
             ELSE LET hasWriteAccess == tokenHasWriteAccess(r.data)
                  IN AfterToken(hasWriteAccess,
                       logs \o <<IF hasWriteAccess
                                 THEN Log("info", <<"Token has write access">>)
                                 ELSE Log("warning", <<"Token has insufficient permissions">>)>>,
                       calls, wr)
  /\ UNCHANGED <<outer, inputs, actorResult, labelOp, labelExists, timer, steps>>

\* a mutation: a failed createLabel is retried whatever the attempt is
CreateResponseUnboundedRetry ==
  /\ op = "createPending"
  /\ \E outcome \in CreateAnswers :
       /\ Answered(outcome)
       /\ IF outcome.ok
          THEN /\ labelExists' = TRUE
               /\ labelCreated' = TRUE
               /\ op' = "deletePending"
               /\ attempt' = 1
               /\ createEnd' = Ending(outcome)
               /\ Idle(Append(calls, "deleteLabel"))
          ELSE /\ op' = "createWait"
               /\ Idle(calls)
               /\ UNCHANGED <<attempt, labelCreated, labelExists, createEnd>>
  /\ UNCHANGED <<outer, inputs, repoData, actorResult, timer, deleteEnd>>

\* labelOperation: createLabel answers (retryWithBackoff, at most 3 attempts)
CreateResponse ==
  /\ op = "createPending"
  /\ \E outcome \in CreateAnswers :
       /\ Answered(outcome)
       /\ IF outcome.ok
          THEN /\ labelExists' = TRUE
               /\ labelCreated' = TRUE
               /\ op' = "deletePending"
               /\ attempt' = 1
               /\ createEnd' = Ending(outcome)
               /\ Idle(Append(calls, "deleteLabel"))
          ELSE IF attempt < CreateMaxAttempts
          THEN /\ op' = "createWait"
               /\ Idle(calls)
               /\ UNCHANGED <<attempt, labelCreated, labelExists, createEnd>>
          ELSE /\ op' = "failed"
               /\ createEnd' = Ending(outcome)
               /\ IF pc = "race" THEN Catch(outcome, labelCreated, logs, calls) ELSE Idle(calls)
               /\ UNCHANGED <<attempt, labelCreated, labelExists>>
  /\ UNCHANGED <<outer, inputs, repoData, actorResult, timer, deleteEnd>>

\* retryWithBackoff: the delay is over, createLabel is requested again
CreateRetry ==
  /\ op = "createWait"
  /\ op' = "createPending"
  /\ attempt' = attempt + 1
  /\ Idle(Append(calls, "createLabel"))
  /\ UNCHANGED <<outer, inputs, answers, actorResult, labelCreated, labelExists, timer, steps>>

\* a mutation: the last failure of the retried deleteLabel is only logged
DeleteResponseFailureLogged ==
  /\ op = "deletePending"
  /\ \E outcome \in DeleteAnswers(labelExists) :
       /\ Answered(outcome)
       /\ IF outcome.ok
          THEN /\ labelExists' = FALSE
               /\ op' = "returned"
               /\ deleteEnd' = Ending(outcome)
               /\ IF pc = "race" THEN ProbeReturn(logs, calls) ELSE Idle(calls)
               /\ UNCHANGED attempt
          ELSE IF attempt < DeleteMaxAttempts
          THEN /\ op' = "deleteWait"
               /\ Idle(calls)
               /\ UNCHANGED <<attempt, labelExists, deleteEnd>>
          ELSE /\ op' = "returned"
               /\ deleteEnd' = Ending(outcome)
               /\ IF pc = "race"
                  THEN ProbeReturn(
                         logs \o <<Log("warning", <<"Could not clean up test label">>)>>, calls)
                  ELSE Idle(calls)
               /\ UNCHANGED <<attempt, labelExists>>
  /\ UNCHANGED <<outer, inputs, repoData, actorResult, labelCreated, timer, createEnd>>

\* labelOperation: deleteLabel answers (retryWithBackoff, at most 2 attempts)
DeleteResponse ==
  /\ op = "deletePending"
  /\ \E outcome \in DeleteAnswers(labelExists) :
       /\ Answered(outcome)
       /\ IF outcome.ok
          THEN /\ labelExists' = FALSE
               /\ op' = "returned"
               /\ deleteEnd' = Ending(outcome)
               /\ IF pc = "race" THEN ProbeReturn(logs, calls) ELSE Idle(calls)
               /\ UNCHANGED attempt
          ELSE IF attempt < DeleteMaxAttempts
          THEN /\ op' = "deleteWait"
               /\ Idle(calls)
               /\ UNCHANGED <<attempt, labelExists, deleteEnd>>
          ELSE /\ op' = "failed"
               /\ deleteEnd' = Ending(outcome)
               /\ IF pc = "race" THEN Catch(outcome, labelCreated, logs, calls) ELSE Idle(calls)
               /\ UNCHANGED <<attempt, labelExists>>
  /\ UNCHANGED <<outer, inputs, repoData, actorResult, labelCreated, timer, createEnd>>

\* retryWithBackoff: the delay is over, deleteLabel is requested again
DeleteRetry ==
  /\ op = "deleteWait"
  /\ op' = "deletePending"
  /\ attempt' = attempt + 1
  /\ Idle(Append(calls, "deleteLabel"))
  /\ UNCHANGED <<outer, inputs, answers, actorResult, labelCreated, labelExists, timer, steps>>

\* the timeout promise rejects while Promise.race is still pending
Timeout ==
  /\ timer = "armed"
  /\ pc = "race"
  /\ timer' = "fired"
  /\ Catch(TimeoutError, labelCreated, logs, calls)
  /\ UNCHANGED <<outer, inputs, answers, actorResult, labelOp, labelExists, steps>>

\* the catch block's deleteLabel answers; the caught error is thrown again
CleanupResponse ==
  /\ pc = "cleanup"
  /\ \E outcome \in DeleteAnswers(labelExists) :
       /\ Answered(outcome)
       /\ labelExists' = IF outcome.ok THEN FALSE ELSE labelExists
       /\ ProbeThrow(pendingError,
            IF outcome.ok THEN logs
            ELSE logs \o <<Log("warning", <<"Could not clean up test label after timeout">>)>>,
            calls)
  /\ UNCHANGED <<outer, inputs, repoData, actorResult, labelOp, timer, steps>>

\* the probe without retry: createLabel answers
CreateSimpleResponse ==
  /\ pc = "createSimple"
  /\ \E outcome \in CreateAnswers :
       /\ Answered(outcome)
       /\ createEnd' = Ending(outcome)
       /\ IF outcome.ok
          THEN /\ labelExists' = TRUE
               /\ pc' = "deleteSimple"
               /\ calls' = Append(calls, "deleteLabel")
               /\ UNCHANGED <<logs, wrapped, tokenResult, skipResult, validation, verdict,
                              errMsg, pendingError>>
          ELSE /\ ProbeThrow(outcome, logs, calls)
               /\ UNCHANGED labelExists
  /\ UNCHANGED <<outer, inputs, repoData, actorResult, labelOp, timer, deleteEnd>>

\* the probe without retry: deleteLabel answers, a failure is only logged
DeleteSimpleResponse ==
  /\ pc = "deleteSimple"
  /\ \E outcome \in DeleteAnswers(labelExists) :
       /\ Answered(outcome)
       /\ deleteEnd' = Ending(outcome)
       /\ labelExists' = IF outcome.ok THEN FALSE ELSE labelExists
       /\ ProbeReturn(
            IF outcome.ok THEN logs
            ELSE logs \o <<Log("warning", <<"Could not clean up test label">>)>>,
            calls)
  /\ UNCHANGED <<outer, inputs, repoData, actorResult, labelOp, timer, createEnd>>

\* checkActorWritePermissions: getCollaboratorPermissionLevel answers
ActorReadResponse ==
  /\ pc = "actorRead"
  /\ \E outcome \in CollaboratorAnswers :
       LET name == "check permissions for " \o show(actor)
           r == executeApiCall(outcome, name, NoHandlers)
           hasWriteAccess == r.kind = "value" /\ actorHasWriteAccess(r.data)
       IN /\ Answered(outcome)
          /\ wrapped' = Append(wrapped, Wrapped(outcome, name, NoHandlers, r))
          /\ actorResult' = IF r.kind = "raise" THEN "raise"
                            ELSE IF hasWriteAccess THEN "true" ELSE "false"
          /\ verdict' = actorResult'
          /\ errMsg' = IF r.kind = "raise" THEN r.msg ELSE errMsg
          /\ logs' = logs \o r.logs \o
               (IF r.kind # "value" THEN <<>>
                ELSE IF hasWriteAccess
                THEN <<Log("info", <<"Actor has write access: ", r.data>>)>>
                ELSE <<Log("warning", <<"Actor has insufficient permissions: ", r.data>>)>>)
          /\ pc' = "done"
  /\ UNCHANGED <<outer, inputs, repoData, calls, tokenResult, skipResult, validation, pendingError,
                 labelOp, labelExists, timer, steps>>

Next ==
  \/ Start
  \/ RepoGetResponse
  \/ CreateResponse
  \/ CreateRetry
  \/ DeleteResponse
  \/ DeleteRetry
  \/ Timeout
  \/ CleanupResponse
  \/ CreateSimpleResponse
  \/ DeleteSimpleResponse
  \/ ActorReadResponse

Spec == Init /\ [][Next]_vars

\* every pending request is answered and every timer runs out: some enabled
\* step is eventually taken
FairSpec == Spec /\ WF_vars(Next)

(* ---------------------------------------------------------------------- *)
(* Shape of the state                                                       *)
(* ---------------------------------------------------------------------- *)

TypeOK ==
  /\ pc \in {"start", "repoGet", "race", "cleanup", "createSimple", "deleteSimple",
             "actorRead", "done"}
  /\ tokenResult \in {"none", "true", "false", "raise"}
  /\ skipResult \in {"none", "true", "false"}
  /\ actorResult \in {"none", "true", "false", "raise"}
  /\ verdict \in {"none", "true", "false", "raise"}
  /\ op \in {"idle", "createPending", "createWait", "deletePending", "deleteWait",
             "returned", "failed"}
  /\ attempt \in 0..CreateMaxAttempts
  /\ timer \in {"unset", "armed", "fired"}
  /\ createEnd \in {"none", "ok"} \cup {showStatus(st) : st \in ErrorStatuses}
  /\ deleteEnd \in {"none", "ok"} \cup {showStatus(st) : st \in ErrorStatuses}
  /\ (pc = "done") = (verdict # "none")

(* ---------------------------------------------------------------------- *)
(* Properties                                                               *)
(* ---------------------------------------------------------------------- *)

Range(f) == {f[i] : i \in DOMAIN f}

Done == pc = "done"

ActorReadIssued == "getCollaboratorPermissionLevel" \in Range(calls)

\* what validateTrustedBot gives for the inputs of this run
ValidNow == validateTrustedBot(actor, eventName, Context(senderType, prAuthor)).isValid

\* the collaborator read answered with this permission
ActorPermissionWas(permission) ==
  \E i \in DOMAIN wrapped :
    /\ wrapped[i].operationName = "check permissions for " \o show(actor)
    /\ wrapped[i].outcome.ok
    /\ wrapped[i].outcome.data = permission

\* C1: with an OIDC token whose token check passed, the bypass is refused
\* whatever the trust list, the event, the sender type and the PR author are;
\* the collaborator-permission read is issued and its result is the verdict.
C1_OidcAlwaysChecksActor ==
  (source = TokenSource.OIDC /\ tokenResult = "true") =>
    /\ skipResult = "false"
    /\ validation = NotValidated
    /\ ActorReadIssued
    /\ Done => (actorResult # "none" /\ verdict = actorResult)

\* C1 witness: an OIDC run of a trusted bot that validateTrustedBot would
\* accept, denied by the collaborator read
C1_Witness ==
  /\ source = TokenSource.OIDC
  /\ actor \in trustedBots
  /\ ValidNow
  /\ ActorPermissionWas("none")
  /\ Done
  /\ verdict = "false"

\* the probe's operation returned true to executeApiCall
ProbeSucceeded ==
  \E i \in DOMAIN wrapped :
    /\ wrapped[i].operationName = ProbeName
    /\ wrapped[i].outcome.ok
    /\ wrapped[i].result.kind = "value"

\* C2: a verdict of true implies that the token check of the token's
\* provenance returned true (OIDC: repos.get reported push or admin; external:
\* the label probe succeeded) and that the collaborator check returned true or
\* the token is external and the bypass was granted.
C2_TrueVerdictNeedsEveryCheck ==
  (Done /\ verdict = "true") =>
    /\ tokenResult = "true"
    /\ actorResult = "true" \/ (source = TokenSource.EXTERNAL /\ skipResult = "true")
    /\ source = TokenSource.OIDC =>
         (calls[1] = "repos.get" /\ repoData \in {"push", "admin", "push+admin"})
    /\ source = TokenSource.EXTERNAL => (calls[1] = "createLabel" /\ ProbeSucceeded)

\* C2 witness: an OIDC run authorized with admin alone on the repository and
\* write for the actor
C2_Witness ==
  /\ Done
  /\ verdict = "true"
  /\ source = TokenSource.OIDC
  /\ repoData = "admin"
  /\ ActorPermissionWas("write")

\* C3: the token check runs first, and when it returns false the run ends
\* with verdict false, canSkipActorCheck and validateTrustedBot not evaluated
\* and no collaborator read issued.
C3_TokenCheckFirst ==
  /\ pc # "start" => calls[1] \in {"repos.get", "createLabel"}
  /\ tokenResult = "none" => (skipResult = "none" /\ ~ActorReadIssued)
  /\ tokenResult = "false" =>
       /\ Done
       /\ verdict = "false"
       /\ skipResult = "none"
       /\ validation = NotValidated
       /\ actorResult = "none"
       /\ ~ActorReadIssued

\* C3 witness: an external token whose probe is denied, for a trusted bot
\* that validateTrustedBot would accept
C3_Witness ==
  /\ tokenResult = "false"
  /\ source = TokenSource.EXTERNAL
  /\ actor \in trustedBots
  /\ ValidNow

\* the bypass condition of the orchestrator, on the inputs of this run
BypassCondition ==
  /\ source = TokenSource.EXTERNAL
  /\ actor \in trustedBots
  /\ ValidNow

\* C4: once the token check passed, the collaborator read is skipped exactly
\* when the token is external, the actor is in the trust list and
\* validateTrustedBot accepts; then the verdict is true with no read issued,
\* and otherwise the verdict is the result of the collaborator check.
C4_SkipIffTrustedBypass ==
  tokenResult = "true" =>
    /\ ActorReadIssued <=> ~BypassCondition
    /\ BypassCondition => (Done /\ verdict = "true" /\ actorResult = "none")
    /\ (~BypassCondition /\ Done) => (actorResult # "none" /\ verdict = actorResult)

\* C4 witness: the bypass granted to a trusted bot that opened the PR
C4_Witness ==
  /\ tokenResult = "true"
  /\ BypassCondition
  /\ prAuthor = actor
  /\ Done
  /\ ~ActorReadIssued

\* a run in which canSkipActorCheck reached validateTrustedBot
Validated == validation # NotValidated

\* under an external token that passed the probe, the collaborator check ran
\* and decided the verdict
ExternalFallsToActorCheck ==
  (source = TokenSource.EXTERNAL /\ tokenResult = "true") =>
    /\ skipResult = "false"
    /\ ActorReadIssued
    /\ Done => (actorResult # "none" /\ verdict = actorResult)
    /\ (Done /\ ActorPermissionWas("none")) => verdict = "false"

\* C5: on pull_request_target validateTrustedBot returns invalid whatever the
\* trust list, the sender type and the PR author are, so under an external
\* token that passed the probe the verdict is the collaborator check's
\* result (permission none: false).
C5_TargetEventNeverBypasses ==
  eventName = "pull_request_target" =>
    /\ ~ValidNow
    /\ Validated => ~validation.isValid
    /\ ExternalFallsToActorCheck

\* C5 witness: a trusted bot with a bot sender that opened the PR, on
\* pull_request_target with an external token, denied with permission none
C5_Witness ==
  /\ eventName = "pull_request_target"
  /\ source = TokenSource.EXTERNAL
  /\ actor \in trustedBots
  /\ endsWith(actor, BOT_SUFFIX)
  /\ senderType = SENDER_TYPE_BOT
  /\ prAuthor = actor
  /\ Validated
  /\ ActorPermissionWas("none")
  /\ verdict = "false"

\* the handle's naming convention disagrees with the sender type
SpoofingMismatch == endsWith(actor, BOT_SUFFIX) # (senderType = SENDER_TYPE_BOT)

C7_OnlyPullRequestBypasses ==
  eventName # "pull_request" =>
    /\ ~ValidNow
    /\ Validated => ~validation.isValid
    /\ ExternalFallsToActorCheck

\* C7 witness: a trusted bot with a bot sender on issue_comment under an
\* external token: validated, refused, and the collaborator check decided
C7_Witness ==
  /\ eventName = "issue_comment"
  /\ source = TokenSource.EXTERNAL
  /\ actor \in trustedBots
  /\ ~SpoofingMismatch
  /\ Validated
  /\ Done
  /\ actorResult # "none"

\* C8: when the spoofing and event-type checks pass, validateTrustedBot is
\* invalid if the payload records an author other than the handle and valid
\* if the author is the handle or the payload has no author; a trusted bot
\* that did not open the PR gets no bypass.
C8_AuthorshipStep ==
  (~SpoofingMismatch /\ eventName = "pull_request") =>
    /\ ValidNow <=> (prAuthor = NoAuthor \/ prAuthor = actor)
    /\ Validated => (validation.isValid <=> (prAuthor = NoAuthor \/ prAuthor = actor))
    /\ (prAuthor # NoAuthor /\ prAuthor # actor) => skipResult # "true"
    /\ (Validated /\ ~validation.isValid) =>
         validation.reason = AuthorReason(actor, prAuthor)

\* C8 witness: the bypass granted on a payload without pull-request data
C8_Witness ==
  /\ ~SpoofingMismatch
  /\ eventName = "pull_request"
  /\ prAuthor = NoAuthor
  /\ Validated
  /\ validation.isValid
  /\ skipResult = "true"

\* C8, the other case reached: a trusted bot refused for a PR it did not open
C8_MismatchReached ==
  /\ ~SpoofingMismatch
  /\ eventName = "pull_request"
  /\ prAuthor \notin {NoAuthor, actor}
  /\ Validated
  /\ ~validation.isValid

\* the warning executeApiCall logs itself when no handler is supplied
SentinelWarning(w) ==
  Log("warning", <<w.operationName, " failed (", showStatus(w.outcome.status), "): ",
                   w.outcome.message>>)

\* executeApiCall on a success, and on an error with status 403 or 404
ClassifiesHandled(w) ==
  /\ w.outcome.ok =>
       (w.result.kind = "value" /\ w.result.data = w.outcome.data /\ w.result.logs = <<>>)
  /\ (~w.outcome.ok /\ w.outcome.status = 403) =>
       /\ w.result.kind = "false"
       /\ w.result.logs = IF w.handlers.onAccessDenied.present
                          THEN <<Log("warning", w.handlers.onAccessDenied.warn)>>
                          ELSE <<SentinelWarning(w)>>
  /\ (~w.outcome.ok /\ w.outcome.status = 404) =>
       /\ w.result.kind = "false"
       /\ w.result.logs = IF w.handlers.onNotFound.present
                          THEN <<Log("warning", w.handlers.onNotFound.warn)>>
                          ELSE <<SentinelWarning(w)>>

Fatal(w) == ~w.outcome.ok /\ w.outcome.status \notin {403, 404}

\* C9 as claimed: every invocation of executeApiCall is classified by status
\* alone, and an error with any status other than 403 and 404, or with no
\* status, raises an error whose message carries the operation name.
C9_Original ==
  \A i \in DOMAIN wrapped :
    LET w == wrapped[i]
    IN /\ ClassifiesHandled(w)
       /\ Fatal(w) =>
            (w.result.kind = "raise" /\ w.operationName \in Range(w.result.msg))

\* C9 amended: as claimed, but the error raised for status 429 reads
\* "Rate limited: <message>" and does not carry the operation name; the error
\* raised for every other status, or for no status, reads
\* "Failed to <operation name>: <message>".
C9_WrapperClassification ==
  \A i \in DOMAIN wrapped :
    LET w == wrapped[i]
    IN /\ ClassifiesHandled(w)
       /\ Fatal(w) =>
            /\ w.result.kind = "raise"
            /\ w.result.logs = <<Log("error", w.result.msg)>>
            /\ w.result.msg = IF w.outcome.status = 429
                              THEN <<"Rate limited: ", w.outcome.message>>
                              ELSE <<"Failed to ", w.operationName, ": ", w.outcome.message>>
            /\ w.outcome.status = 429 => w.operationName \notin Range(w.result.msg)
       /\ (Done /\ i = Len(wrapped) /\ w.result.kind = "raise") =>
            (verdict = "raise" /\ errMsg = w.result.msg)

\* C9 witness: the probe's operation threw a 429 and the run raised
\* "Rate limited: ..."
C9_Witness ==
  /\ Done
  /\ verdict = "raise"
  /\ errMsg = <<"Rate limited: ", messageOf(429)>>
  /\ \E i \in DOMAIN wrapped :
       /\ wrapped[i].operationName = ProbeName
       /\ wrapped[i].outcome.status = 429
       /\ wrapped[i].handlers.onAccessDenied.present

\* C10 as claimed: if any platform call of the run was answered with 429,
\* checkWritePermissions raises and returns no boolean.
C10_Original == (Done /\ rateLimited) => verdict = "raise"

\* the error that reached executeApiCall had status 429
RateLimitReachedWrapper ==
  \E i \in DOMAIN wrapped : ~wrapped[i].outcome.ok /\ wrapped[i].outcome.status = 429

\* C10 amended: if the repository read, the collaborator-permission read or
\* the probe's operation fails with status 429 (the last attempt of label
\* creation, or of the retried label deletion), checkWritePermissions raises
\* "Rate limited: ..." and returns no boolean, handlers or not; a 429 answered
\* to an attempt that is retried, to the catch block's deleteLabel or to the
\* deleteLabel of the probe without retry is swallowed and leaves the
\* verdict to the other steps.
C10_RateLimitIsFatal ==
  /\ RateLimitReachedWrapper =>
       /\ Done
       /\ verdict = "raise"
       /\ errMsg = <<"Rate limited: ", messageOf(429)>>
  /\ (Done /\ verdict \in {"true", "false"}) => ~RateLimitReachedWrapper

\* C10 witness: the collaborator-permission read answered 429 after a
\* passing token check, and the run raised
C10_Witness ==
  /\ Done
  /\ tokenResult = "true"
  /\ actorResult = "raise"
  /\ verdict = "raise"
  /\ rateLimited
  /\ RateLimitReachedWrapper

\* C10, the swallowed case reached: a boolean verdict although a label
\* deletion was answered with 429
C10_SwallowedReached ==
  /\ Done
  /\ rateLimited
  /\ verdict \in {"true", "false"}

\* the invocations of executeApiCall made by checkActorWritePermissions
IsActorRead(w) == w.operationName = "check permissions for " \o show(actor)

C11_OtherStringReached ==
  /\ Done
  /\ ActorPermissionWas("maintain")
  /\ verdict = "false"

\* C12: for an OIDC token the token check returns true exactly when
\* repos.get succeeds and reports push or admin (admin alone suffices); when
\* the answer has no permissions object the check returns false and the
\* verdict is false, with nothing raised and no collaborator read issued.
C12_OidcTokenCheck ==
  (source = TokenSource.OIDC /\ repoData # "unread") =>
    /\ tokenResult # "none"
    /\ tokenResult = "true" <=> repoData \in {"push", "admin", "push+admin"}
    /\ repoData = "absent" =>
         /\ tokenResult = "false"
         /\ Done
         /\ verdict = "false"
         /\ errMsg = <<>>
         /\ ~ActorReadIssued
         /\ actorResult = "none"

\* C12 witness: repos.get answered without a permissions object and the run
\* returned false
C12_Witness ==
  /\ source = TokenSource.OIDC
  /\ repoData = "absent"
  /\ Done
  /\ verdict = "false"

\* C12, the other case reached: admin without push passes the token check
C12_AdminAloneReached ==
  /\ source = TokenSource.OIDC
  /\ repoData = "admin"
  /\ tokenResult = "true"

Denied == {"403", "404"}

\* C13 as claimed: the probe returns true when label creation and label
\* deletion both succeed, and false whenever creation or deletion ends with
\* status 403 or 404.
C13_Original ==
  (source = TokenSource.EXTERNAL /\ tokenResult # "none") =>
    /\ (createEnd = "ok" /\ deleteEnd = "ok") => tokenResult = "true"
    /\ (createEnd \in Denied \/ deleteEnd \in Denied) => tokenResult = "false"

\* the error of the probe's timeout, as executeApiCall raises it
TimeoutMessage == <<"Failed to ", ProbeName, ": ", TimeoutError.message>>

\* C13 amended: while the timeout has not fired, the retrying probe returns
\* true when creation and deletion both succeed and false when the last
\* attempt of creation or of deletion is answered 403 or 404; once the
\* timeout has fired first the probe raises the timeout error whatever the
\* steps answer.  The probe without retry returns true whenever creation
\* succeeds (a failed deletion is only logged) and false when creation is
\* answered 403 or 404.
C13_ProbeOutcome ==
  (source = TokenSource.EXTERNAL /\ tokenResult # "none") =>
    /\ (variant = "retry" /\ timer # "fired") =>
         /\ (createEnd = "ok" /\ deleteEnd = "ok") => tokenResult = "true"
         /\ (createEnd \in Denied \/ deleteEnd \in Denied) => tokenResult = "false"
    /\ (variant = "retry" /\ timer = "fired") =>
         (tokenResult = "raise" /\ errMsg = TimeoutMessage)
    /\ variant = "noretry" =>
         /\ createEnd = "ok" => tokenResult = "true"
         /\ createEnd \in Denied => tokenResult = "false"

\* C13 witness: the retrying probe created the label, the last attempt of
\* the deletion was answered 403, and the probe returned false
C13_Witness ==
  /\ source = TokenSource.EXTERNAL
  /\ variant = "retry"
  /\ timer # "fired"
  /\ createEnd = "ok"
  /\ deleteEnd = "403"
  /\ tokenResult = "false"

\* C13, the other cases reached: both steps succeeded and the probe returned
\* true; both steps succeeded after the timeout had fired
C13_BothSucceedReached ==
  /\ variant = "retry"
  /\ createEnd = "ok"
  /\ deleteEnd = "ok"
  /\ tokenResult = "true"

C13_TimedOutReached ==
  /\ variant = "retry"
  /\ createEnd = "ok"
  /\ deleteEnd = "ok"
  /\ tokenResult = "raise"

DeleteIssued == "deleteLabel" \in Range(calls)

\* C14: in every run of the probe in which the label was created a
\* deleteLabel request is issued, and a failure of deleting the label is only
\* logged: when the label was created and the timeout has not fired, so that
\* nothing but the deletion can have failed, the probe does not raise.
C14_CleanupNeverFatal ==
  source = TokenSource.EXTERNAL =>
    /\ createEnd = "ok" => DeleteIssued
    /\ (createEnd = "ok" /\ timer # "fired") => tokenResult # "raise"

\* C14, the failing case: the retrying probe created the label, both
\* attempts of the deletion failed with a status other than 403 and 404, and
\* the run raised the deletion's error
C14_DeleteFailureRaised ==
  /\ variant = "retry"
  /\ timer # "fired"
  /\ createEnd = "ok"
  /\ deleteEnd = "500"
  /\ Done
  /\ verdict = "raise"
  /\ errMsg = <<"Failed to ", ProbeName, ": ", messageOf(500)>>

\* the timeout fires in this step, after the label was created
TimeoutAfterCreation == timer = "armed" /\ timer' = "fired" /\ createEnd = "ok"

\* the catch block holds the timeout error while its deleteLabel is awaited
CleaningUpAfterTimeout == pc = "cleanup" /\ pendingError = TimeoutError

\* C15: when the timeout fires after the label was created and before its
\* deletion has completed, whatever attempt of the deletion is pending or
\* waiting to be retried, the step that handles the timeout issues a
\* deleteLabel request and surfaces nothing yet; the timeout error is
\* surfaced only once that request has been answered.
C15_CleanupBeforeTimeoutError ==
  /\ [][TimeoutAfterCreation =>
          /\ deleteEnd = "none"
          /\ calls' = Append(calls, "deleteLabel")
          /\ pc' = "cleanup"
          /\ pendingError' = TimeoutError
          /\ tokenResult' = "none"
          /\ verdict' = "none"]_vars
  /\ [](CleaningUpAfterTimeout => (tokenResult = "none" /\ verdict = "none"))
  /\ []((timer = "fired" /\ tokenResult # "none") =>
          /\ tokenResult = "raise"
          /\ errMsg = TimeoutMessage
          /\ pendingError = TimeoutError => Len(SelectSeq(calls, LAMBDA c : c = "deleteLabel")) >= 2)

\* C15 witness: the timeout fired while the second attempt of the deletion
\* was pending, the catch block's deleteLabel was answered and the timeout
\* error was surfaced
C15_Witness ==
  /\ timer = "fired"
  /\ createEnd = "ok"
  /\ pendingError = TimeoutError
  /\ attempt = DeleteMaxAttempts
  /\ Done
  /\ verdict = "raise"
  /\ errMsg = TimeoutMessage

\* C15, the case outside the claim reached: the timeout fired while
\* createLabel was pending, the error was surfaced without a deleteLabel
\* request, and the label was created afterwards
C15_CreatedAfterTimeoutReached ==
  /\ timer = "fired"
  /\ pendingError = NoError
  /\ verdict = "raise"
  /\ labelExists

\* the number of requests of this name issued so far
Issued(name) == Len(SelectSeq(calls, LAMBDA c : c = name))

Reads == Issued("repos.get") + Issued("getCollaboratorPermissionLevel")

Writes == Issued("createLabel") + Issued("deleteLabel")

\* C16 as claimed: a run issues at most two reads and, on the probe path, at
\* most two writes, one createLabel and one deleteLabel.
C16_Original ==
  /\ Reads <= 2
  /\ Issued("createLabel") <= 1
  /\ Issued("deleteLabel") <= 1
  /\ Writes <= 2

\* the place of a step of the awaiting chain in the order TokenCheck,
\* ActorDecision, ActorCheck
Rank(p) ==
  CASE p = "start" -> 0
    [] p \in {"repoGet", "race", "createSimple"} -> 1
    [] p \in {"cleanup", "deleteSimple"} -> 2
    [] p = "actorRead" -> 3
    [] OTHER -> 4

\* the awaiting chain moves forward, and a result once set is not set again
NoStepRevisited ==
  /\ Rank(pc') >= Rank(pc)
  /\ tokenResult # "none" => tokenResult' = tokenResult
  /\ skipResult # "none" => skipResult' = skipResult
  /\ actorResult # "none" => actorResult' = actorResult
  /\ verdict # "none" => verdict' = verdict

\* C16 amended: every run terminates without revisiting a step and issues at
\* most two reads, each of them once; an OIDC run issues no write; the probe
\* without retry issues at most one createLabel and one deleteLabel; the
\* retrying probe issues at most three createLabel requests and at most
\* three deleteLabel requests (two attempts and the catch block's one).
C16_TerminatesBounded ==
  /\ <>Done
  /\ [][NoStepRevisited]_vars
  /\ [](/\ Reads <= 2
        /\ Issued("repos.get") <= 1
        /\ Issued("getCollaboratorPermissionLevel") <= 1
        /\ source = TokenSource.OIDC => Writes = 0
        /\ source = TokenSource.EXTERNAL => Issued("repos.get") = 0
        /\ variant = "noretry" => (Issued("createLabel") <= 1 /\ Issued("deleteLabel") <= 1)
        /\ variant = "retry" => (Issued("createLabel") <= 3 /\ Issued("deleteLabel") <= 3))

\* C16 witness: a run of the retrying probe that issued three createLabel and
\* three deleteLabel requests and ended
C16_Witness ==
  /\ Done
  /\ Issued("createLabel") = 3
  /\ Issued("deleteLabel") = 3

(* ---------------------------------------------------------------------- *)
(* The actor identity check: checkAllowedActor, and checkHumanActor with   *)
(* the trustedBots list                                                     *)
(* ---------------------------------------------------------------------- *)

IdentityVariants == {"allowedBots", "humanActor", "trustedBots"}

IdentityHandles == {DependabotBot, DependabotUpper, DependabotBare, HumanUser}

\* userData.type: "Mannequin" stands for a type other than the three the
\* code and its tests name
Kinds == {"User", "Bot", "Organization", "Mannequin"}

\* values of the allowed_bots input, character by character
AllowedBotsInputs ==
  { <<>>,
    <<"*">>,
    <<" ", "*", " ">>,
    <<"d">>,
    <<"D">> \o BOT_SUFFIX \o <<",", " ", "u">>,
    <<",", "u", ",">> }

\* String.prototype.toLowerCase, on the letters of the model
toLowerCase(str) == [i \in DOMAIN str |-> IF str[i] = "D" THEN "d" ELSE str[i]]

RECURSIVE trimStart(_)
trimStart(str) ==
  IF str # <<>> /\ Head(str) = " " THEN trimStart(Tail(str)) ELSE str

RECURSIVE trimEnd(_)
trimEnd(str) ==
  IF str # <<>> /\ str[Len(str)] = " " THEN trimEnd(SubSeq(str, 1, Len(str) - 1)) ELSE str

\* String.prototype.trim
trim(str) == trimEnd(trimStart(str))

\* the fields of str before and after each separator, the field cur being
\* read; "".split(",") is [""]
RECURSIVE splitFrom(_, _, _)
splitFrom(str, sep, cur) ==
  IF str = <<>> THEN <<cur>>
  ELSE IF Head(str) = sep THEN <<cur>> \o splitFrom(Tail(str), sep, <<>>)
  ELSE splitFrom(Tail(str), sep, Append(cur, Head(str)))

\* String.prototype.split
split(str, sep) == splitFrom(str, sep, <<>>)

\* .replace(/\[bot\]$/, "")
stripBotSuffix(str) ==
  IF endsWith(str, BOT_SUFFIX) THEN SubSeq(str, 1, Len(str) - Len(BOT_SUFFIX)) ELSE str

\* bot.trim().toLowerCase().replace(/\[bot\]$/, "")
normalizeEntry(bot) == stripBotSuffix(toLowerCase(trim(bot)))

\* allowedBots.split(",").map(...).filter((bot) => bot.length > 0)
allowedBotsList(str) ==
  LET fields == split(str, ",")
  IN SelectSeq([i \in DOMAIN fields |-> normalizeEntry(fields[i])], LAMBDA bot : Len(bot) > 0)

\* a mutation: the actor is compared as it is spelled
botNameAsSpelled(handle) == handle

\* githubContext.actor.toLowerCase().replace(/\[bot\]$/, "")
botName(handle) == stripBotSuffix(toLowerCase(handle))

\* a name of the allowed_bots list, or a bot name, as it is interpolated
showName(name) == IF name = <<"d">> THEN "d" ELSE IF name = <<"u">> THEN "u" ELSE "?"

NonHumanMessage(name, type) ==
  <<"Workflow initiated by non-human actor: ", name, " (type: ", type, ").",
    " Add bot to allowed_bots list or use '*' to allow all bots.">>

\* the message of checkHumanActor with the trustedBots list
NonHumanMessageShort(name, type) ==
  <<"Workflow initiated by non-human actor: ", name, " (type: ", type, ").">>

IdentityInit ==
  /\ source = TokenSource.OIDC
  /\ actor \in IdentityHandles
  /\ eventName \in {"pull_request", "pull_request_target"}
  /\ senderType \in {"undefined", "User", "Bot"}
  /\ prAuthor = NoAuthor
  /\ variant = "retry"
  /\ idVariant \in IdentityVariants
  /\ IF idVariant # "trustedBots"
     THEN allowedBots \in AllowedBotsInputs /\ trustedBots = {}
     ELSE /\ allowedBots = <<>>
          /\ trustedBots \in {t \in SUBSET IdentityHandles : Cardinality(t) <= MaxTrusted}
  /\ idPc = "start"
  /\ kind = "unresolved"
  /\ idResult = "none"
  /\ idError = NoError
  /\ pc = "start"
  /\ calls = <<>>
  /\ repoData = "unread"
  /\ rateLimited = FALSE
  /\ wrapped = <<>>
  /\ logs = <<>>
  /\ tokenResult = "none"
  /\ skipResult = "none"
  /\ validation = NotValidated
  /\ actorResult = "none"
  /\ verdict = "none"
  /\ errMsg = <<>>
  /\ op = "idle"
  /\ attempt = 0
  /\ labelCreated = FALSE
  /\ labelExists = FALSE
  /\ timer = "unset"
  /\ createEnd = "none"
  /\ deleteEnd = "none"
  /\ pendingError = NoError
  /\ RunIdle
  /\ TwiceIdle

\* what the identity check leaves alone
IdentityFrame ==
  UNCHANGED <<inputs, idVariant, allowedBots, pc, wrapped, tokenResult, skipResult,
              validation, verdict, pendingError, repoData, actorResult, labelOp,
              labelExists, timer, steps, running, twice>>

\* a mutation: checkHumanActor does not look at the trustedBots list
IdentityStartWithoutTrustList ==
  /\ idPc = "start"
  /\ calls' = Append(calls, "users.getByUsername")
  /\ idPc' = "lookup"
  /\ UNCHANGED <<logs, idResult, kind, idError, errMsg, rateLimited>>
  /\ IdentityFrame

\* the identity check up to its first await or its return
IdentityStart ==
  /\ idPc = "start"
  /\ IF idVariant = "trustedBots" /\ actor \in trustedBots
     THEN /\ logs' = Append(logs, Log("info",
                 <<"Actor ", show(actor), " is in trusted bots list, skipping human check">>))
          /\ idResult' = "ok"
          /\ idPc' = "done"
          /\ UNCHANGED calls
     ELSE /\ calls' = Append(calls, "users.getByUsername")
          /\ idPc' = "lookup"
          /\ UNCHANGED <<logs, idResult>>
  /\ UNCHANGED <<kind, idError, errMsg, rateLimited>>
  /\ IdentityFrame

\* the last line of checkAllowedActor, and that of the checkHumanActor that
\* reads the allowed_bots input
VerifiedLine(type) ==
  IF idVariant = "humanActor"
  THEN Log("info", <<"Verified human actor: ", show(actor)>>)
  ELSE Log("info", <<"Verified authorized actor: ", show(actor), " (type: ", type, ")">>)

\* a mutation: only the type Bot is held to the allowed_bots input
AllowedActorDecisionOnlyBots(type) ==
  LET typed == Append(logs, Log("info", <<"Actor type: ", type>>))
      name == botName(actor)
  IN IF type = "Bot"
     THEN IF trim(allowedBots) = <<"*">>
          THEN /\ logs' = Append(typed, Log("info",
                      <<"All bots are allowed, skipping human actor check for: ", show(actor)>>))
               /\ idResult' = "ok"
               /\ UNCHANGED errMsg
          ELSE IF name \in Range(allowedBotsList(allowedBots))
          THEN /\ logs' = Append(typed, Log("info",
                      <<"Bot ", showName(name), " is in allowed list, skipping human actor check">>))
               /\ idResult' = "ok"
               /\ UNCHANGED errMsg
          ELSE /\ logs' = typed
               /\ idResult' = "raise"
               /\ errMsg' = NonHumanMessage(showName(name), type)
     ELSE /\ logs' = Append(typed, VerifiedLine(type))
          /\ idResult' = "ok"
          /\ UNCHANGED errMsg

\* the rest of checkAllowedActor, and of the checkHumanActor that reads the
\* allowed_bots input, once userData.type is known: neither looks at the
\* event or at the sender of the payload
AllowedActorDecision(type) ==
  LET typed == Append(logs, Log("info", <<"Actor type: ", type>>))
      name == botName(actor)
  IN IF type # "User"
     THEN IF trim(allowedBots) = <<"*">>
          THEN /\ logs' = Append(typed, Log("info",
                      <<"All bots are allowed, skipping human actor check for: ", show(actor)>>))
               /\ idResult' = "ok"
               /\ UNCHANGED errMsg
          ELSE IF name \in Range(allowedBotsList(allowedBots))
          THEN /\ logs' = Append(typed, Log("info",
                      <<"Bot ", showName(name), " is in allowed list, skipping human actor check">>))
               /\ idResult' = "ok"
               /\ UNCHANGED errMsg
          ELSE /\ logs' = typed
               /\ idResult' = "raise"
               /\ errMsg' = NonHumanMessage(showName(name), type)
     ELSE /\ logs' = Append(typed, VerifiedLine(type))
          /\ idResult' = "ok"
          /\ UNCHANGED errMsg

\* the rest of the checkHumanActor that reads the trustedBots list, once
\* userData.type is known
HumanActorDecision(type) ==
  LET typed == Append(logs, Log("info", <<"Actor type: ", type>>))
  IN IF type # "User"
     THEN /\ logs' = typed
          /\ idResult' = "raise"
          /\ errMsg' = NonHumanMessageShort(show(actor), type)
     ELSE /\ logs' = Append(typed, Log("info", <<"Verified human actor: ", show(actor)>>))
          /\ idResult' = "ok"
          /\ UNCHANGED errMsg

\* a mutation: a failed lookup is answered like an account of unknown type
GetByUsernameResponseDefaultDeny ==
  /\ idPc = "lookup"
  /\ \E outcome \in {Success(k) : k \in Kinds} \cup Failures :
       /\ Answered(outcome)
       /\ kind' = IF outcome.ok THEN outcome.data ELSE "undefined"
       /\ idError' = IF outcome.ok THEN idError ELSE outcome
       /\ IF idVariant # "trustedBots"
          THEN AllowedActorDecision(kind')
          ELSE HumanActorDecision(kind')
  /\ idPc' = "done"
  /\ UNCHANGED calls
  /\ IdentityFrame

\* users.getByUsername answers: a rejection leaves the function as it is
GetByUsernameResponse ==
  /\ idPc = "lookup"
  /\ \E outcome \in {Success(k) : k \in Kinds} \cup Failures :
       /\ Answered(outcome)
       /\ IF outcome.ok
          THEN /\ kind' = outcome.data
               /\ UNCHANGED idError
               /\ IF idVariant # "trustedBots"
                  THEN AllowedActorDecision(outcome.data)
                  ELSE HumanActorDecision(outcome.data)
          ELSE /\ idResult' = "raise"
               /\ idError' = outcome
               /\ errMsg' = <<outcome.message>>
               /\ UNCHANGED <<kind, logs>>
  /\ idPc' = "done"
  /\ UNCHANGED calls
  /\ IdentityFrame

IdentityNext == IdentityStart \/ GetByUsernameResponse

IdentitySpec == IdentityInit /\ [][IdentityNext]_vars

IdentityTypeOK ==
  /\ idPc \in {"start", "lookup", "done"}
  /\ idResult \in {"none", "ok", "raise"}
  /\ kind \in Kinds \cup {"unresolved"}
  /\ (idPc = "done") = (idResult # "none")

\* the actor is in the trust configuration of the identity check
InTrustConfiguration ==
  IF idVariant = "trustedBots"
  THEN actor \in trustedBots
  ELSE \/ trim(allowedBots) = <<"*">>
       \/ botName(actor) \in Range(allowedBotsList(allowedBots))

LookupIssued == "users.getByUsername" \in Range(calls)

C17_ListedBotResolvedReached ==
  /\ idVariant = "allowedBots"
  /\ InTrustConfiguration
  /\ kind = "Bot"
  /\ idResult = "ok"

C17_ListedLookupFailedReached ==
  /\ idVariant = "allowedBots"
  /\ InTrustConfiguration
  /\ idError # NoError
  /\ idResult = "raise"

\* the lookup answered with a type
Resolved == idPc = "done" /\ idError = NoError /\ kind # "unresolved"

LowerCaseBareName == IF actor = HumanUser THEN "u" ELSE "d"

C18_UnknownKindReached ==
  /\ ~InTrustConfiguration
  /\ kind = "Mannequin"
  /\ idResult = "raise"

C18_HumanReached ==
  /\ ~InTrustConfiguration
  /\ kind = "User"
  /\ idResult = "ok"

\* C19: when users.getByUsername fails, with any status or none, the identity
\* check catches nothing and decides nothing: it raises the error of the
\* lookup itself, resolves no type and logs nothing, in both variants and
\* whatever the trust configuration is.
C19_LookupFailurePropagates ==
  /\ idError # NoError =>
       /\ idPc = "done"
       /\ idResult = "raise"
       /\ errMsg = <<idError.message>>
       /\ idError \in Failures
       /\ kind = "unresolved"
       /\ \A i \in DOMAIN logs : logs[i].level = "info" /\ logs[i].text[1] # "Actor type: "
  /\ (idPc = "done" /\ LookupIssued /\ kind = "unresolved") => idError # NoError

\* C19 witness: the lookup of an actor that matches the allowed_bots input
\* was answered 404 and checkAllowedActor raised that error
C19_Witness ==
  /\ idVariant = "allowedBots"
  /\ InTrustConfiguration
  /\ idError = Failure(404)
  /\ idResult = "raise"
  /\ errMsg = <<messageOf(404)>>

\* C19, the other case reached: an error without a status propagates from
\* checkHumanActor
C19_NoStatusReached ==
  /\ idVariant = "trustedBots"
  /\ idError = Failure(0)
  /\ idResult = "raise"

(* ---------------------------------------------------------------------- *)
(* The entrypoint run()                                                     *)
(* ---------------------------------------------------------------------- *)

\* the two run() of the sources: the one holding a tokenContext and the
\* earlier one holding an authContext
RunVariants == {"tokenContext", "authContext"}

\* the message run() throws on a false verdict
DeniedMessage(v) ==
  IF v = "tokenContext"
  THEN <<"Actor does not have write permissions to the repository">>
  ELSE <<"Insufficient permissions to write to the repository">>

\* run() passes the context on untouched: a handle of each kind, a pull
\* request event and another one, an empty and a non-empty trustedBots input
RunInit ==
  /\ source \in {TokenSource.OIDC, TokenSource.EXTERNAL}
  /\ actor \in {DependabotBot, HumanUser}
  /\ eventName \in {"pull_request", "issue_comment"}
  /\ trustedBots \in {{}, {DependabotBot}}
  /\ senderType \in {"Bot", "User"}
  /\ prAuthor \in {DependabotBot, HumanUser}
  /\ variant \in IF source = TokenSource.EXTERNAL THEN Variants ELSE {"retry"}
  /\ pc = "start"
  /\ calls = <<>>
  /\ repoData = "unread"
  /\ rateLimited = FALSE
  /\ wrapped = <<>>
  /\ logs = <<>>
  /\ tokenResult = "none"
  /\ skipResult = "none"
  /\ validation = NotValidated
  /\ actorResult = "none"
  /\ verdict = "none"
  /\ errMsg = <<>>
  /\ op = "idle"
  /\ attempt = 0
  /\ labelCreated = FALSE
  /\ labelExists = FALSE
  /\ timer = "unset"
  /\ createEnd = "none"
  /\ deleteEnd = "none"
  /\ pendingError = NoError
  /\ IdentityIdle
  /\ TwiceIdle
  /\ runVariant \in RunVariants
  /\ runPc = "start"
  /\ entity = "unparsed"
  /\ runCalls = <<>>
  /\ outputs = <<>>
  /\ failed = <<>>

\* what run() itself leaves alone
RunFrame ==
  UNCHANGED <<inputs, flow, calls, answers, actorResult, labelOp, labelExists,
              timer, steps, identity, twice, runVariant>>

\* the catch block of run(): setFailed, the prepare_error output, exit(1)
RunCatch(message, called) ==
  /\ failed' = <<"Prepare step failed with error: ">> \o message
  /\ outputs' = Append(outputs, <<"prepare_error", message>>)
  /\ runCalls' = called
  /\ runPc' = "exited"

\* steps 4 and 5 of run() up to the await of prepare() or the early return
TriggerAndPrepare(called) ==
  \E containsTrigger \in BOOLEAN :
    /\ outputs' = Append(outputs,
                    <<"contains_trigger", <<IF containsTrigger THEN "true" ELSE "false">>>>)
    /\ IF containsTrigger
       THEN /\ runCalls' = called \o <<"shouldTrigger", "prepare">>
            /\ runPc' = "prepare"
       ELSE /\ runCalls' = called \o <<"shouldTrigger">>
            /\ runPc' = "returned"
    /\ UNCHANGED failed

\* run() up to its first await: the mode input is validated
RunStart ==
  /\ runPc = "start"
  /\ \E valid \in BOOLEAN :
       IF valid
       THEN /\ runCalls' = <<"setupTokenContext">>
            /\ runPc' = "token"
            /\ UNCHANGED <<outputs, failed>>
       ELSE RunCatch(<<"Invalid mode: ", "modeInput">>, runCalls)
  /\ UNCHANGED entity
  /\ RunFrame

\* the token setup answers; the context is parsed and, for an entity context
\* only, checkWritePermissions is called
RunTokenResponse ==
  /\ runPc = "token"
  /\ \E resolved \in BOOLEAN, isEntity \in BOOLEAN :
       IF ~resolved
       THEN /\ RunCatch(<<"token setup failed">>, runCalls)
            /\ UNCHANGED entity
       ELSE LET called == runCalls \o <<"createOctokit", "parseGitHubContext">>
            IN IF isEntity
               THEN /\ entity' = "entity"
                    /\ runCalls' = Append(called, "checkWritePermissions")
                    /\ runPc' = "check"
                    /\ UNCHANGED <<outputs, failed>>
               ELSE /\ entity' = "automation"
                    /\ TriggerAndPrepare(called)
  /\ RunFrame

\* a mutation: the verdict of checkWritePermissions is awaited and dropped
RunCheckReturnIgnoresVerdict ==
  /\ runPc = "check"
  /\ pc = "done"
  /\ IF verdict = "raise"
     THEN RunCatch(errMsg, runCalls)
     ELSE TriggerAndPrepare(runCalls)
  /\ UNCHANGED entity
  /\ RunFrame

\* checkWritePermissions has settled: a raised error and a false verdict go
\* to the catch block, a true one to the trigger evaluation
RunCheckReturn ==
  /\ runPc = "check"
  /\ pc = "done"
  /\ IF verdict = "raise"
     THEN RunCatch(errMsg, runCalls)
     ELSE IF verdict = "false"
     THEN RunCatch(DeniedMessage(runVariant), runCalls)
     ELSE TriggerAndPrepare(runCalls)
  /\ UNCHANGED entity
  /\ RunFrame

\* prepare() answers: the mcp_config output and, in the later run(), the
\* system prompt of the mode when it has one
RunPrepareResponse ==
  /\ runPc = "prepare"
  /\ \E resolved \in BOOLEAN, systemPrompt \in BOOLEAN :
       IF ~resolved
       THEN RunCatch(<<"prepare failed">>, runCalls)
       ELSE /\ outputs' =
                 IF runVariant = "tokenContext" /\ systemPrompt
                 THEN outputs \o <<<<"mcp_config", <<"mcpConfig">>>>,
                                   <<"APPEND_SYSTEM_PROMPT", <<"systemPrompt">>>>>>
                 ELSE Append(outputs, <<"mcp_config", <<"mcpConfig">>>>)
            /\ runPc' = "returned"
            /\ UNCHANGED <<runCalls, failed>>
  /\ UNCHANGED entity
  /\ RunFrame

\* a step of checkWritePermissions, once run() has called it; what the probe
\* left pending is answered while the process lives, not after exit(1)
RunCheckStep ==
  /\ \/ runPc = "check"
     \/ runPc \in {"prepare", "returned"} /\ pc = "done"
  /\ Next

RunNext ==
  \/ RunStart
  \/ RunTokenResponse
  \/ RunCheckStep
  \/ RunCheckReturn
  \/ RunPrepareResponse

RunSpec == RunInit /\ [][RunNext]_vars

PrepareCalled == "prepare" \in Range(runCalls)

TriggerEvaluated == "shouldTrigger" \in Range(runCalls)

CheckCalled == "checkWritePermissions" \in Range(runCalls)

\* C20 as claimed: in every run, prepare() is called only after
\* checkWritePermissions has returned true.
C20_Original == PrepareCalled => (CheckCalled /\ verdict = "true")

\* C20 amended: in a run on an entity context, prepare() is called only after
\* checkWritePermissions was called and returned true; a false verdict or a
\* raised error takes the run to its catch block, where it fails with the
\* error's message (the denial message for a false verdict) and exits, with
\* no trigger evaluated, no contains_trigger output and no prepare(). On any
\* other context run() does not call checkWritePermissions at all.
C20_WriteCheckBeforePrepare ==
  /\ (entity = "entity" /\ (PrepareCalled \/ TriggerEvaluated)) =>
       /\ CheckCalled
       /\ pc = "done"
       /\ verdict = "true"
  /\ (entity = "entity" /\ verdict \in {"false", "raise"}) =>
       /\ runPc \in {"check", "exited"}
       /\ ~TriggerEvaluated
       /\ ~PrepareCalled
       /\ \A i \in DOMAIN outputs : outputs[i][1] = "prepare_error"
       /\ runPc = "exited" =>
            LET message == IF verdict = "raise" THEN errMsg ELSE DeniedMessage(runVariant)
            IN /\ failed = <<"Prepare step failed with error: ">> \o message
               /\ outputs = <<<<"prepare_error", message>>>>
  /\ entity = "automation" => (~CheckCalled /\ pc = "start" /\ verdict = "none")
  /\ PrepareCalled => TriggerEvaluated

\* C20 witness: on an entity context the check returned true and prepare()
\* was called
C20_Witness ==
  /\ entity = "entity"
  /\ verdict = "true"
  /\ PrepareCalled
  /\ runCalls = <<"setupTokenContext", "createOctokit", "parseGitHubContext",
                  "checkWritePermissions", "shouldTrigger", "prepare">>

\* C20, the other cases reached: a false verdict ended the run
C20_DeniedReached ==
  /\ entity = "entity"
  /\ verdict = "false"
  /\ runPc = "exited"
  /\ failed = <<"Prepare step failed with error: ">> \o DeniedMessage(runVariant)

\* a raised error ended the run
C20_RaisedReached ==
  /\ entity = "entity"
  /\ verdict = "raise"
  /\ runPc = "exited"

\* prepare() was called with no check, on a context that is no entity context
C20_AutomationPreparedReached ==
  /\ entity = "automation"
  /\ PrepareCalled
  /\ ~CheckCalled

(* ---------------------------------------------------------------------- *)
(* Two calls of checkWritePermissions on an unchanged repository            *)
(* ---------------------------------------------------------------------- *)

\* the repositories whose state is held fixed: each request has one answer
FixedRepositories ==
  [fixed : {TRUE}, repo : RepoOutcomes, create : CreateOutcomes,
   delete : {Success("deleted")} \cup Failures,
   collaborator : {Success("write"), Failure(403)}]

\* the token check takes the repository and the token context only; the rest
\* of the context is held to one human actor
TwiceInit ==
  /\ source \in {TokenSource.OIDC, TokenSource.EXTERNAL}
  /\ actor = HumanUser
  /\ eventName = "pull_request"
  /\ trustedBots = {}
  /\ senderType = "User"
  /\ prAuthor = HumanUser
  /\ variant \in IF source = TokenSource.EXTERNAL THEN Variants ELSE {"retry"}
  /\ pc = "start"
  /\ calls = <<>>
  /\ repoData = "unread"
  /\ rateLimited = FALSE
  /\ wrapped = <<>>
  /\ logs = <<>>
  /\ tokenResult = "none"
  /\ skipResult = "none"
  /\ validation = NotValidated
  /\ actorResult = "none"
  /\ verdict = "none"
  /\ errMsg = <<>>
  /\ op = "idle"
  /\ attempt = 0
  /\ labelCreated = FALSE
  /\ labelExists = FALSE
  /\ timer = "unset"
  /\ createEnd = "none"
  /\ deleteEnd = "none"
  /\ pendingError = NoError
  /\ IdentityIdle
  /\ RunIdle
  /\ repository \in FixedRepositories
  /\ first = NoCall

\* what a settled call gave, and the repository it ran on
Settled ==
  [result |-> tokenResult, verdict |-> verdict, calls |-> calls, timer |-> timer,
   labelLeft |-> labelExists, repository |-> repository]

\* the state of a call about to start: no local of an earlier call is kept
Forget ==
  /\ pc' = "start"
  /\ calls' = <<>>
  /\ repoData' = "unread"
  /\ wrapped' = <<>>
  /\ logs' = <<>>
  /\ tokenResult' = "none"
  /\ skipResult' = "none"
  /\ validation' = NotValidated
  /\ actorResult' = "none"
  /\ verdict' = "none"
  /\ errMsg' = <<>>
  /\ op' = "idle"
  /\ attempt' = 0
  /\ labelCreated' = FALSE
  /\ labelExists' = FALSE
  /\ timer' = "unset"
  /\ createEnd' = "none"
  /\ deleteEnd' = "none"
  /\ pendingError' = NoError

\* the first call has settled and its label operation has ended: the caller
\* calls checkWritePermissions again with the same arguments.  Every local of
\* the first call is gone (labelCreated, the timer, testLabel); what stays is
\* the repository, with the label the first call may have left on it.
CallAgain ==
  /\ repository.fixed
  /\ first = NoCall
  /\ pc = "done"
  /\ op \in {"idle", "returned", "failed"}
  /\ first' = Settled
  /\ Forget
  /\ UNCHANGED <<inputs, rateLimited, identity, running, repository>>

\* the platform calls of checkWritePermissions
CallNames ==
  [repo |-> "repos.get", create |-> "createLabel", delete |-> "deleteLabel",
   collaborator |-> "getCollaboratorPermissionLevel"]

\* the answer to the other of access denied and not found
Conflated(outcome) == IF outcome.status = 403 THEN Failure(404) ELSE Failure(403)

\* as CallAgain, on a repository that answers one of the calls with the
\* other of 403 and 404 and every other call as before
CallSwapped ==
  /\ repository.fixed
  /\ first = NoCall
  /\ pc = "done"
  /\ op \in {"idle", "returned", "failed"}
  /\ \E c \in DOMAIN CallNames :
       /\ repository[c].status \in {403, 404}
       /\ repository' = [repository EXCEPT ![c] = Conflated(repository[c])]
  /\ first' = Settled
  /\ Forget
  /\ UNCHANGED <<inputs, rateLimited, identity, running>>

TwiceNext == Next \/ CallAgain

TwiceSpec == TwiceInit /\ [][TwiceNext]_vars

SwapNext == Next \/ CallSwapped

SwapSpec == TwiceInit /\ [][SwapNext]_vars

\* both calls have given the result of verifyTokenAccess
BothCallsSettled == first.result # "none" /\ tokenResult # "none"

\* the probe's timeout fired in one of the two calls
SomeCallTimedOut == first.timer = "fired" \/ timer = "fired"

C21_OidcTwiceReached ==
  /\ source = TokenSource.OIDC
  /\ first.result = "false"
  /\ tokenResult = "false"

\* the timeout made one call raise where the other returned true
C21_TimeoutDiffersReached ==
  /\ first.result = "true"
  /\ tokenResult = "raise"
  /\ timer = "fired"

\* C22: checkHumanActor raises for every actor of a type other than User
\* when the event is pull_request_target, also for one the allowed_bots input
\* names.
C22_BotsBlockedOnTarget ==
  (idVariant = "humanActor" /\ eventName = "pull_request_target" /\ Resolved
     /\ kind # "User") => idResult = "raise"

\* C22: the run that breaks it: a Bot the allowed_bots input names passed
\* checkHumanActor on pull_request_target
C22_ListedBotPassedOnTargetReached ==
  /\ idVariant = "humanActor"
  /\ eventName = "pull_request_target"
  /\ actor = DependabotBot
  /\ allowedBots = <<"d">>
  /\ kind = "Bot"
  /\ idResult = "ok"

\* C23: checkHumanActor raises whenever the handle ends in "[bot]" and the
\* sender type of the payload is User, also when the allowed_bots input is "*".
C23_SpoofingRejected ==
  (idVariant = "humanActor" /\ endsWith(actor, BOT_SUFFIX) /\ senderType = "User"
     /\ idPc = "done") => idResult = "raise"

\* C23: the run that breaks it: a handle with the bot suffix and a sender of
\* type User, looked up as a Bot, passed because every bot is allowed
C23_SpoofedBotPassedReached ==
  /\ idVariant = "humanActor"
  /\ actor = DependabotBot
  /\ senderType = "User"
  /\ allowedBots = <<"*">>
  /\ kind = "Bot"
  /\ idResult = "ok"

\* the call whose answer differs between the two runs
SwappedCalls == {c \in DOMAIN CallNames : repository[c] # first.repository[c]}

\* both runs have settled and their label operations have ended
BothRunsSettled ==
  /\ first.verdict # "none"
  /\ pc = "done"
  /\ op \in {"idle", "returned", "failed"}

\* the second run was issued the call that is answered differently
SwappedCallIssued == \E c \in SwappedCalls : CallNames[c] \in Range(calls)

\* C24 as claimed: a run and the run in which one call's 403 is a 404 (or the
\* reverse), the timeout firing in neither, end with the same verdict, false,
\* after the same platform calls.
C24_Original ==
  (BothRunsSettled /\ SwappedCallIssued /\ timer # "fired" /\ first.timer # "fired") =>
    /\ verdict = "false"
    /\ first.verdict = "false"
    /\ calls = first.calls

\* C24 amended: when the probe's timeout fires in neither run, the two runs
\* end with the same verdict after the same platform calls, and that verdict
\* is false when the call answered 403 or 404 was issued and is not the
\* deleteLabel of the probe without retry, whose failure is only logged.  A
\* run in which the timeout fires raises whatever the statuses are.
C24_DeniedConflated ==
  BothRunsSettled =>
    /\ (timer # "fired" /\ first.timer # "fired") =>
         /\ verdict = first.verdict
         /\ calls = first.calls
         /\ (SwappedCallIssued /\ ~(variant = "noretry" /\ SwappedCalls = {"delete"})) =>
              verdict = "false"
    /\ timer = "fired" => verdict = "raise"
    /\ first.timer = "fired" => first.verdict = "raise"

\* C24 witness: createLabel was answered 403 in one run and 404 in the other,
\* and both runs ended false after the same three attempts
C24_Witness ==
  /\ BothRunsSettled
  /\ variant = "retry"
  /\ source = TokenSource.EXTERNAL
  /\ first.repository.create = Failure(403)
  /\ repository.create = Failure(404)
  /\ verdict = "false"
  /\ first.verdict = "false"
  /\ calls = <<"createLabel", "createLabel", "createLabel">>
  /\ first.calls = calls

\* C24, the other cases reached: the collaborator read was answered 404 and
\* 403; the deleteLabel of the probe without retry was answered 403 and 404
\* and both runs ended true
C24_ActorReadReached ==
  /\ BothRunsSettled
  /\ SwappedCalls = {"collaborator"}
  /\ SwappedCallIssued
  /\ verdict = "false"
  /\ first.verdict = "false"

C24_LoggedDeletionReached ==
  /\ BothRunsSettled
  /\ variant = "noretry"
  /\ SwappedCalls = {"delete"}
  /\ SwappedCallIssued
  /\ verdict = "true"
  /\ first.verdict = "true"

\* the checks of validateTrustedBot in the order the claim gives them
CheckOrder == <<"spoofing", "target", "event", "authorship">>

\* the inputs of this run fail the check
FailsCheck(check) ==
  CASE check = "spoofing" -> endsWith(actor, BOT_SUFFIX) # (senderType = SENDER_TYPE_BOT)
    [] check = "target" -> eventName = "pull_request_target"
    [] check = "event" -> eventName # "pull_request"
    [] check = "authorship" -> prAuthor # NoAuthor /\ prAuthor # actor

\* the reason the check gives when it fails
ReasonOfCheck(check) ==
  CASE check = "spoofing" -> SpoofReason(actor, endsWith(actor, BOT_SUFFIX), senderType)
    [] check = "target" -> TargetReason(actor)
    [] check = "event" -> EventReason(actor, eventName)
    [] check = "authorship" -> AuthorReason(actor, prAuthor)

FailingChecks == {i \in DOMAIN CheckOrder : FailsCheck(CheckOrder[i])}

\* C25: the result of validateTrustedBot is invalid with the reason of the
\* first check, in the order spoofing, pull_request_target, event type,
\* authorship, that the inputs fail, and valid when they fail none.
C25_FirstFailureWins ==
  Validated =>
    IF FailingChecks = {}
    THEN validation = Valid
    ELSE LET firstFailing == CHOOSE i \in FailingChecks : \A j \in FailingChecks : i <= j
         IN validation = Invalid(ReasonOfCheck(CheckOrder[firstFailing]))

\* C25 witness: the inputs fail the spoofing check and the
\* pull_request_target check, and the reason is that of the spoofing check
C25_Witness ==
  /\ Validated
  /\ FailsCheck("spoofing")
  /\ FailsCheck("target")
  /\ validation.reason = ReasonOfCheck("spoofing")
  /\ validation.reason # ReasonOfCheck("target")

\* C25, the other cases reached: issue_comment with another author is
\* refused with the event-type reason; pull_request_target that passes the
\* spoofing check is refused with its own reason, not the event-type one
C25_EventBeforeAuthorReached ==
  /\ Validated
  /\ eventName = "issue_comment"
  /\ FailsCheck("authorship")
  /\ ~FailsCheck("spoofing")
  /\ validation.reason = ReasonOfCheck("event")

C25_TargetBeforeEventReached ==
  /\ Validated
  /\ FailingChecks = {2, 3, 4}
  /\ validation.reason = ReasonOfCheck("target")

\* canSkipActorCheck has returned
SkipDecided == skipResult # "none"

\* C26 as claimed: canSkipActorCheck never returns true for an actor whose
\* sender type is User.
C26_Original == senderType = "User" => skipResult # "true"

\* C26 amended: for a sender of type User, canSkipActorCheck returns true
\* exactly when the token is external, the handle is in the trusted list and
\* has no bot suffix, the event is pull_request and the pull request has no
\* author or the actor as author; a handle with the bot suffix and a sender of
\* type User never gets the bypass.
C26_HumanSenderBypass ==
  (senderType = "User" /\ SkipDecided) =>
    /\ skipResult = "true" <=>
         /\ source = TokenSource.EXTERNAL
         /\ actor \in trustedBots
         /\ ~endsWith(actor, BOT_SUFFIX)
         /\ eventName = "pull_request"
         /\ prAuthor \in {NoAuthor, actor}
    /\ endsWith(actor, BOT_SUFFIX) => skipResult = "false"

\* C26 witness: a listed handle without the bot suffix, sent by a User on a
\* pull request it authored, was given the bypass and no collaborator read
C26_Witness ==
  /\ senderType = "User"
  /\ actor = HumanUser
  /\ actor \in trustedBots
  /\ prAuthor = actor
  /\ eventName = "pull_request"
  /\ skipResult = "true"
  /\ verdict = "true"
  /\ ~ActorReadIssued

\* C26, the other case reached: a listed handle with the bot suffix and a
\* sender of type User is refused the bypass
C26_SuffixedHumanRefusedReached ==
  /\ senderType = "User"
  /\ actor = DependabotBot
  /\ actor \in trustedBots
  /\ source = TokenSource.EXTERNAL
  /\ eventName = "pull_request"
  /\ skipResult = "false"

\* the cause a warning or error line names, "none" for any other line
DenialCause(line) ==
  IF line.level = "info" THEN "none"
  ELSE IF line.text[1] \in {"Token lacks read access", "Token has insufficient permissions",
                            "External token lacks write permissions",
                            "External token cannot access repository",
                            "Token verification failed - no write access"}
  THEN "token"
  ELSE IF \/ line.text[1] = "Actor has insufficient permissions: "
          \/ line.text[1] = "check permissions for " \o show(actor)
  THEN "actor"
  ELSE IF line.text[1] \in {"Account ", "Non-standard bot name '", "Trusted bot ", "Bot ",
                            "External token provided but actor "}
  THEN "bypass"
  ELSE "none"

DenialLines == {i \in DOMAIN logs : DenialCause(logs[i]) # "none"}

DenialCauses == {DenialCause(logs[i]) : i \in DenialLines}

\* C27: a run that ends with verdict false has logged exactly one denial
\* line, and that line names the cause that applied: the token when the token
\* check gave false, else the actor.
C27_OneDenialLine ==
  (Done /\ verdict = "false") =>
    /\ Cardinality(DenialLines) = 1
    /\ DenialCauses = {IF tokenResult = "false" THEN "token" ELSE "actor"}

\* C27: runs that break it: a token denied by repos.get is reported on two
\* lines; a listed bot refused the bypass and then denied by the collaborator
\* read has a line for either cause
C27_TokenDeniedTwiceReached ==
  /\ Done
  /\ verdict = "false"
  /\ source = TokenSource.OIDC
  /\ DenialCauses = {"token"}
  /\ Cardinality(DenialLines) = 2

C27_TwoCausesReached ==
  /\ Done
  /\ verdict = "false"
  /\ tokenResult = "true"
  /\ DenialCauses = {"bypass", "actor"}

\* the probe returned true to verifyTokenAccess
ProbeReturnedTrue == source = TokenSource.EXTERNAL /\ tokenResult = "true"

CleanupWarned ==
  \E i \in DOMAIN logs :
    logs[i] = Log("warning", <<"Could not clean up test label">>)

\* C28 as claimed: whenever the probe returns true its label is no longer on
\* the repository.
C28_Original == ProbeReturnedTrue => ~labelExists

\* C28 amended: when the probe with retry returns true, its deleteLabel has
\* succeeded and the label is gone, then and ever after.  The probe without
\* retry returns true as soon as the label was created: the label is gone
\* when its deleteLabel succeeded, and is left on the repository, with a
\* warning logged, when that deleteLabel failed.
C28_LabelAfterTrue ==
  ProbeReturnedTrue =>
    /\ createEnd = "ok"
    /\ variant = "retry" => (deleteEnd = "ok" /\ ~labelExists)
    /\ variant = "noretry" =>
         /\ labelExists <=> deleteEnd # "ok"
         /\ labelExists <=> CleanupWarned

\* C28 witness: the probe with retry returned true after its first deleteLabel
\* failed and its second succeeded, and the label is gone
C28_Witness ==
  /\ ProbeReturnedTrue
  /\ variant = "retry"
  /\ calls[1] = "createLabel"
  /\ Len(calls) >= 3
  /\ calls[2] = "deleteLabel"
  /\ calls[3] = "deleteLabel"
  /\ deleteEnd = "ok"
  /\ ~labelExists

\* C28, the other case reached: the probe without retry returned true and
\* left its label
C28_LabelLeftReached ==
  /\ ProbeReturnedTrue
  /\ variant = "noretry"
  /\ labelExists
  /\ Done

\* the probe has reported its outcome to verifyTokenAccess
ProbeReported == source = TokenSource.EXTERNAL /\ tokenResult # "none"

\* the label operation has a request pending or a retry scheduled
LabelWritePending == op \in {"createPending", "createWait", "deletePending", "deleteWait"}

\* C29: once the probe has reported its outcome, no createLabel or deleteLabel
\* of its label operation is pending or scheduled for a retry, and while the
\* catch block's deleteLabel is pending the label operation has none pending.
C29_NoWriteAfterOutcome ==
  /\ ProbeReported => ~LabelWritePending
  /\ pc = "cleanup" => op # "deletePending"

\* C29: runs that break it: the timeout fired while createLabel was pending,
\* the probe raised, and the label was created afterwards
C29_CreatedAfterOutcomeReached ==
  /\ ProbeReported
  /\ tokenResult = "raise"
  /\ timer = "fired"
  /\ calls = <<"createLabel", "deleteLabel">>
  /\ labelExists
  /\ op = "deletePending"

\* the catch block and the label operation both have a deleteLabel pending
C29_TwoDeletionsPendingReached ==
  /\ pc = "cleanup"
  /\ op = "deletePending"
  /\ calls = <<"createLabel", "deleteLabel", "deleteLabel">>

\* run() has exited with the probe's createLabel still pending
C29_ExitedWhilePendingReached ==
  /\ runPc = "exited"
  /\ op = "createPending"
  /\ verdict = "raise"

(* ---------------------------------------------------------------------- *)
(* The identity gate and the write bypass on the same list                  *)
(* ---------------------------------------------------------------------- *)

\* the spellings of one bot: with the suffix, with an upper-case letter, bare
BotSpellings == {DependabotBot, DependabotUpper, DependabotBare}

\* the orders in which the entries of a list may be written
Orders(entries) == {q \in [1..Cardinality(entries) -> entries] : Range(q) = entries}

\* Array.prototype.join(","): the list as the allowed_bots input spells it
RECURSIVE join(_)
join(list) ==
  IF list = <<>> THEN <<>>
  ELSE IF Len(list) = 1 THEN Head(list)
  ELSE Head(list) \o <<",">> \o join(Tail(list))

\* one list of entries is given to both checks: as inputs.trustedBots to
\* checkWritePermissions and, joined by commas, as inputs.allowedBots to
\* checkAllowedActor
MatchInit ==
  /\ source \in {TokenSource.OIDC, TokenSource.EXTERNAL}
  /\ actor \in BotSpellings
  /\ eventName = "pull_request"
  /\ trustedBots \in {t \in SUBSET BotSpellings : Cardinality(t) <= MaxTrusted}
  /\ senderType \in {"Bot", "User"}
  /\ prAuthor = NoAuthor
  /\ variant \in IF source = TokenSource.EXTERNAL THEN Variants ELSE {"retry"}
  /\ idVariant = "allowedBots"
  /\ allowedBots \in {join(q) : q \in Orders(trustedBots)}
  /\ idPc = "start"
  /\ kind = "unresolved"
  /\ idResult = "none"
  /\ idError = NoError
  /\ pc = "start"
  /\ calls = <<>>
  /\ repoData = "unread"
  /\ rateLimited = FALSE
  /\ wrapped = <<>>
  /\ logs = <<>>
  /\ tokenResult = "none"
  /\ skipResult = "none"
  /\ validation = NotValidated
  /\ actorResult = "none"
  /\ verdict = "none"
  /\ errMsg = <<>>
  /\ op = "idle"
  /\ attempt = 0
  /\ labelCreated = FALSE
  /\ labelExists = FALSE
  /\ timer = "unset"
  /\ createEnd = "none"
  /\ deleteEnd = "none"
  /\ pendingError = NoError
  /\ RunIdle
  /\ TwiceIdle

\* the identity gate runs, then checkWritePermissions, whatever the gate gave
WriteCheckStep == idPc = "done" /\ Next

MatchNext == IdentityNext \/ WriteCheckStep

MatchSpec == MatchInit /\ [][MatchNext]_vars

\* the identity gate finds the actor in the list
InAllowedList == botName(actor) \in Range(allowedBotsList(allowedBots))

\* C30: the write bypass is granted only to an actor whose handle is an
\* entry of the list as it is spelled, and every such actor is in the list
\* for the identity gate too, which then passes it whatever type the lookup
\* reports; an actor the gate finds in the list through another spelling (an
\* entry "d" for the actor "d[bot]", or another case) is refused the bypass.
C30_ExactMatchWithinGateMatch ==
  /\ skipResult = "true" => (actor \in trustedBots /\ InAllowedList)
  /\ actor \in trustedBots => InAllowedList
  /\ (InAllowedList /\ Resolved) => idResult = "ok"
  /\ (actor \notin trustedBots /\ skipResult # "none") => skipResult = "false"

\* C30 witness: the list is the entry "d"; the gate passed the Bot "d[bot]"
\* by it and the bypass was refused to the same actor
C30_Witness ==
  /\ trustedBots = {DependabotBare}
  /\ actor = DependabotBot
  /\ kind = "Bot"
  /\ idResult = "ok"
  /\ source = TokenSource.EXTERNAL
  /\ senderType = "Bot"
  /\ skipResult = "false"
  /\ ActorReadIssued

\* C30, the other case reached: an actor spelled as its entry, upper case
\* included, is given the bypass and passed by the gate
C30_ExactEntryReached ==
  /\ actor = DependabotUpper
  /\ trustedBots = {DependabotUpper}
  /\ kind = "Bot"
  /\ idResult = "ok"
  /\ skipResult = "true"

====
